---- MODULE Spec2Model ----
(***************************************************************************)
(* klc-install: the registry key handle (src/src/registry_key.rs), the     *)
(* value codec (src/src/registry_value.rs) and the two layout allocators   *)
(* (src/src/main.rs), as a state machine over a model of the registry.     *)
(*                                                                         *)
(* Text is a sequence of atoms.  An atom is a one-character string ("f",   *)
(* "\\") or a word that the program never looks inside ("SYSTEM").  The    *)
(* separator "\\" is always an atom of its own, so contains, split and     *)
(* rfind on the separator are exact.                                       *)
(*                                                                         *)
(* A u32 is kept as two 16-bit limbs (hi, lo): TLC's integers are 32-bit   *)
(* signed and 0xF0000000 does not fit.                                     *)
(***************************************************************************)
EXTENDS Integers, Sequences, FiniteSets, TLC

VARIABLES
    containerAccess, \* the layout container key in the store: "ok", "denied" or "missing"
    children,        \* the container's child keys, as [list, fill] (see Listed)
    infoErr,         \* the store's key-info query fails on the container
    enumErr,         \* index (1-based) at which enumerate-nth-child keeps failing; 0: never
    build,           \* "debug" (overflow checks on) or "release" (wrapping arithmetic)
    handles,         \* the store's handle table: [open, bad]
    keys,            \* the RegistryKey objects the caller currently owns
    iter,            \* the one iterator the caller holds
    items,           \* the items the iterator has yielded so far
    tick,            \* parity of the number of advances of the iterator
    outcome,         \* what the last allocator call returned
    value,           \* codec: the typed value at hand
    raw,             \* codec: the (tag, bytes) pair at hand
    decoded,         \* codec: the result of the last decode
    installers,      \* the installers at work: for each, how far it is and what it was handed
    answer,          \* the result of the last call of a checked operation, beside its reference
    files,           \* move_file: the two files, the call's position and its result
    text,            \* string_ext: the string, the pattern and the last result
    range,           \* range_bounds_ext: the bounds, the length and the last result
    search           \* find_kbdutool_in_path: the PATH directories and the call's progress

vars == <<containerAccess, children, infoErr, enumErr, build, handles, keys,
          iter, items, tick, outcome, value, raw, decoded, installers, answer,
          files, text, range, search>>

storeVars == <<containerAccess, children, infoErr, enumErr, build>>
iterVars == <<iter, items, tick>>
codecVars == <<value, raw, decoded>>
auxVars == <<installers, answer>>
utilVars == <<files, text, range, search>>

(***************************************************************************)
(* Bounds of the model.                                                    *)
(***************************************************************************)
MaxChildren == 2     \* children of the container in the enumerated small stores
MaxKeys == 2         \* RegistryKey objects the caller owns at once
MaxStrings == 2      \* strings of a multi-string
MaxStrLen == 2       \* characters of one string
MaxBufLen == 9       \* bytes of a buffer handed to the decoder
MaxInstalls == 2     \* runs of the installer one after the other
MaxIndex == 3        \* small values of a range bound and of a length
MaxTextLen == 3      \* characters of a string a prefix or suffix is removed from
MaxDirs == 3         \* directories listed in PATH
MaxDepth == 3        \* nested calls the stack has room for

(***************************************************************************)
(* Program constants.                                                      *)
(***************************************************************************)
U16Limit == 65536          \* u16 / one limb of a u32
LayoutIdBase == 3840       \* 0x0F00
LayoutIdEnd == 61440       \* 0xF000
KeyBaseHi == 61440         \* 0xf0000000 >> 16
KeyStepHi == 15            \* 0x000f0000 >> 16
KeyMaskHi == 65535         \* 0xffff0000 >> 16
LocaleEnUs == 1033         \* 0x0409
U8Top == 255               \* u8::MAX, the index type into_range is checked with

(***************************************************************************)
(* Hexadecimal text.                                                       *)
(***************************************************************************)
HexChars == <<"0", "1", "2", "3", "4", "5", "6", "7",
              "8", "9", "a", "b", "c", "d", "e", "f">>
UpperHexChars == <<"0", "1", "2", "3", "4", "5", "6", "7",
                   "8", "9", "A", "B", "C", "D", "E", "F">>

HexDigit(d) == HexChars[d + 1]

\* format!("{:04x}") of a value below 2^16: four lower-case digits.
Format04x(n) ==
    <<HexDigit((n \div 4096) % 16), HexDigit((n \div 256) % 16),
      HexDigit((n \div 16) % 16), HexDigit(n % 16)>>

\* format!("{:08x}", id) of the u32 id = hi * 2^16 + lo: eight lower-case digits.
Format08x(hi, lo) == Format04x(hi) \o Format04x(lo)

\* char::to_digit(16): the digit's value, or -1.
DigitVal(c) ==
    IF \E d \in 1..16 : HexChars[d] = c
    THEN (CHOOSE d \in 1..16 : HexChars[d] = c) - 1
    ELSE IF \E d \in 1..16 : UpperHexChars[d] = c
         THEN (CHOOSE d \in 1..16 : UpperHexChars[d] = c) - 1
         ELSE -1

\* The digit loop of from_str_radix over s[i..]: -1 on a bad digit or on overflow
\* of u16.
RECURSIVE ParseDigits(_, _, _)
ParseDigit(s, i, acc, d) ==
    IF d < 0 THEN -1
    ELSE IF acc * 16 + d >= U16Limit THEN -1
         ELSE ParseDigits(s, i + 1, acc * 16 + d)

ParseDigits(s, i, acc) ==
    IF i > Len(s) THEN acc ELSE ParseDigit(s, i, acc, DigitVal(s[i]))

\* u16::from_str_radix(s, 16): the value, or -1 for Err (empty, bad digit, overflow).
ParseHexU16(s) ==
    IF s = <<>> \/ s = <<"+">> THEN -1
    ELSE ParseDigits(s, IF s[1] = "+" THEN 2 ELSE 1, 0)

(***************************************************************************)
(* 16-bit bitwise operations (one limb of a u32).                          *)
(***************************************************************************)
RECURSIVE BitOr(_, _, _)
BitOr(a, b, n) ==
    IF n = 0 THEN 0
    ELSE (IF a % 2 = 1 \/ b % 2 = 1 THEN 1 ELSE 0) + 2 * BitOr(a \div 2, b \div 2, n - 1)

BitOr16(a, b) == BitOr(a, b, 16)

(***************************************************************************)
(* Text helpers.                                                           *)
(***************************************************************************)
Sep == "\\"
Nul == "NUL"      \* the zero code unit, which a U16CString cannot hold inside

Contains(s, a) == \E i \in 1..Len(s) : s[i] = a
FirstIndex(s, a) == CHOOSE i \in 1..Len(s) : s[i] = a /\ \A j \in 1..(i - 1) : s[j] # a
LastIndex(s, a) == CHOOSE i \in 1..Len(s) : s[i] = a /\ \A j \in (i + 1)..Len(s) : s[j] # a

\* str::to_uppercase on the atoms the model uses (a word is one atom).
UpperPairs ==
    <<<<"hklm", "HKLM">>, <<"hkcc", "HKCC">>, <<"hkcr", "HKCR">>, <<"hkcu", "HKCU">>,
      <<"hku", "HKU">>, <<"hkey_local_machine", "HKEY_LOCAL_MACHINE">>,
      <<"Hklm", "HKLM">>, <<"system", "SYSTEM">>, <<"Control", "CONTROL">>,
      <<"CurrentControlSet", "CURRENTCONTROLSET">>,
      <<"Keyboard Layouts", "KEYBOARD LAYOUTS">>,
      <<"a", "A">>, <<"b", "B">>, <<"c", "C">>, <<"d", "D">>, <<"e", "E">>, <<"f", "F">>>>

UpperAtom(a) ==
    IF \E i \in 1..Len(UpperPairs) : UpperPairs[i][1] = a
    THEN UpperPairs[CHOOSE i \in 1..Len(UpperPairs) : UpperPairs[i][1] = a][2]
    ELSE a

ToUppercase(s) == [i \in 1..Len(s) |-> UpperAtom(s[i])]

(***************************************************************************)
(* The store: five predefined roots, the path down to the layout           *)
(* container, and the container's children.                                *)
(***************************************************************************)
\* local_machine, current_config, classes_root, current_user, users
RootNames == <<"HKEY_LOCAL_MACHINE", "HKEY_CURRENT_CONFIG", "HKEY_CLASSES_ROOT",
               "HKEY_CURRENT_USER", "HKEY_USERS">>
RootAliases == <<"HKLM", "HKCC", "HKCR", "HKCU", "HKU">>
NumRoots == Len(RootNames)
RootHandles == 1..NumRoots          \* the predefined handle of root i is i

NoKey == [hkey |-> 0, path |-> <<>>]

\* RegistryKey::local_machine() .. users(): root i.
RootKey(i) == [hkey |-> i, path |-> <<RootNames[i]>>]

ContainerSubPath == <<"SYSTEM", Sep, "CurrentControlSet", Sep, "Control", Sep,
                      "Keyboard Layouts">>
\* The literal of get_layouts_key, and the path the key it opens carries.
LayoutsKeyPath == <<"HKLM", Sep>> \o ContainerSubPath
ContainerPath == <<"HKEY_LOCAL_MACHINE", Sep>> \o ContainerSubPath

IsPrefix(p, s) == Len(p) <= Len(s) /\ SubSeq(s, 1, Len(p)) = p

\* A key on the way from the root to the container (the root included).
IsAncestorPath(p) ==
    /\ IsPrefix(p, ContainerPath)
    /\ Len(p) < Len(ContainerPath)
    /\ Len(p) % 2 = 1

NoValue == [type |-> "None", str |-> <<>>]
StrValue(t) == [type |-> "String", str |-> t]

\* A child key of the container: its name, whether it can be opened ("ok" or
\* "denied"), and its "Layout Id" value.
Child(name, access, id) == [name |-> name, access |-> access, id |-> id]

\* The children of the container are kept as [list, fill]: the children in
\* `list`, in index order, followed by `fill` more, the i-th of which is named
\* by i and holds the i-th identifier of the range as its "Layout Id".
Listed(list) == [list |-> list, fill |-> 0]
FillChild(i) == Child(Format08x(0, i), "ok", StrValue(Format04x(LayoutIdBase + i - 1)))

NumChildren(ch) == Len(ch.list) + ch.fill
ChildAt(ch, i) == IF i <= Len(ch.list) THEN ch.list[i] ELSE FillChild(i - Len(ch.list))

\* The access of the container's child called `name`: "none" when there is none.
ChildAccess(ch, name) ==
    IF \E i \in 1..NumChildren(ch) : ChildAt(ch, i).name = name
    THEN ChildAt(ch, CHOOSE i \in 1..NumChildren(ch) : ChildAt(ch, i).name = name).access
    ELSE "none"

AccessCode(access) ==
    CASE access = "ok" -> "ERROR_SUCCESS"
      [] access = "denied" -> "ERROR_ACCESS_DENIED"
      [] OTHER -> "ERROR_FILE_NOT_FOUND"

\* What the store answers when the key at `path` is opened for full access.
KeyStatus(path, cacc, ch) ==
    IF path = ContainerPath THEN AccessCode(cacc)
    ELSE IF IsAncestorPath(path) THEN "ERROR_SUCCESS"
    ELSE IF /\ Len(path) > Len(ContainerPath) + 1
            /\ IsPrefix(ContainerPath \o <<Sep>>, path)
            /\ cacc # "missing"
         THEN AccessCode(ChildAccess(ch, SubSeq(path, Len(ContainerPath) + 2, Len(path))))
         ELSE "ERROR_FILE_NOT_FOUND"

\* The immediate children of the key at `path`: how many, and the name of the
\* i-th in the store's index order.
ChildCount(path, cacc, ch) ==
    IF path = ContainerPath THEN NumChildren(ch)
    ELSE IF IsAncestorPath(path)
         THEN (IF Len(path) + 2 = Len(ContainerPath) /\ cacc = "missing" THEN 0 ELSE 1)
         ELSE 0

ChildNameAt(path, i, ch) ==
    IF path = ContainerPath THEN ChildAt(ch, i).name ELSE <<ContainerPath[Len(path) + 2]>>

\* Length of the longest child name (RegQueryInfoKeyW's lpcMaxSubKeyLen).
MaxOf(S) == IF S = {} THEN 0 ELSE CHOOSE m \in S : \A l \in S : l <= m
MaxNameLen(path, cacc, ch) ==
    MaxOf({Len(ChildNameAt(path, i, ch)) : i \in 1..ChildCount(path, cacc, ch)})

(***************************************************************************)
(* The store's handle table.  open: the handles handed out and not yet     *)
(* closed; bad: the handles a close was called on while they were not      *)
(* open (a second release, or the release of a predefined root).           *)
(***************************************************************************)
FreshHandle(hs) ==
    CHOOSE h \in (NumRoots + 1)..(NumRoots + Cardinality(hs.open) + 1) :
        h \notin hs.open /\ \A g \in (NumRoots + 1)..(h - 1) : g \in hs.open

RegCloseKey(hs, h) ==
    IF h \in hs.open THEN [hs EXCEPT !.open = @ \ {h}]
    ELSE [hs EXCEPT !.bad = @ \cup {h}]

(***************************************************************************)
(* registry_key.rs                                                         *)
(***************************************************************************)
\* impl From<WIN32_ERROR> for RegistryError
RegistryErrorFrom(code) ==
    CASE code = "ERROR_FILE_NOT_FOUND" -> "NotFound"
      [] code = "ERROR_NO_MORE_ITEMS" -> "NotFound"
      [] code = "ERROR_ACCESS_DENIED" -> "AccessDenied"
      [] OTHER -> "Win32"

IsRootKey(k) == ~Contains(k.path, Sep)

DropKeyLeaks(k, hs) == hs
\* impl Drop for RegistryKey
DropKey(k, hs) ==
    IF IsRootKey(k) THEN hs ELSE RegCloseKey(hs, k.hkey)

\* RegistryKey::get_name: the last segment of the path.
GetName(k) ==
    IF Contains(k.path, Sep) THEN SubSeq(k.path, LastIndex(k.path, Sep) + 1, Len(k.path))
    ELSE k.path

OpenedSubkeyKeepsNameOnly(k, name, hs, code, h) ==
    IF code # "ERROR_SUCCESS"
    THEN [err |-> RegistryErrorFrom(code), key |-> NoKey, hs |-> hs]
    ELSE [err |-> "Ok", key |-> [hkey |-> h, path |-> name],
          hs |-> [hs EXCEPT !.open = @ \cup {h}]]

\* get_subkey after RegOpenKeyExW has answered `code` (and, on success, handle h).
OpenedSubkey(k, name, hs, code, h) ==
    IF code # "ERROR_SUCCESS"
    THEN [err |-> RegistryErrorFrom(code), key |-> NoKey, hs |-> hs]
    ELSE [err |-> "Ok",
          key |-> [hkey |-> h, path |-> k.path \o <<Sep>> \o name],
          hs |-> [hs EXCEPT !.open = @ \cup {h}]]

\* RegistryKey::get_subkey: [err, key, hs]
GetSubkey(k, name, hs, cacc, ch) ==
    IF Contains(name, Nul) THEN [err |-> "Other", key |-> NoKey, hs |-> hs]
    ELSE OpenedSubkey(k, name, hs, KeyStatus(k.path \o <<Sep>> \o name, cacc, ch),
                      FreshHandle(hs))

\* The match of get_root_from_name on the upper-cased name.
RootFromUpper(up) ==
    IF Len(up) = 1 /\ \E i \in 1..NumRoots : up[1] = RootNames[i] \/ up[1] = RootAliases[i]
    THEN [err |-> "Ok",
          key |-> RootKey(CHOOSE i \in 1..NumRoots : up[1] = RootNames[i] \/ up[1] = RootAliases[i])]
    ELSE [err |-> "Other", key |-> NoKey]

\* RegistryKey::get_root_from_name: [err, key]
GetRootFromName(name) == RootFromUpper(ToUppercase(name))

\* from_path once root.get_subkey(subkey_name) has returned r: root goes out of scope.
FromPathReturn(root, r) == [err |-> r.err, key |-> r.key, hs |-> DropKey(root.key, r.hs)]

\* from_path with the result of get_root_from_name(root_name)? at hand.
FromPathUnder(root, sub, hs, cacc, ch) ==
    IF root.err # "Ok" THEN [err |-> root.err, key |-> NoKey, hs |-> hs]
    ELSE FromPathReturn(root, GetSubkey(root.key, sub, hs, cacc, ch))

\* from_path with the place of the first separator at hand.
FromPathSplit(path, cut, hs, cacc, ch) ==
    FromPathUnder(GetRootFromName(SubSeq(path, 1, cut - 1)),
                  SubSeq(path, cut + 1, Len(path)), hs, cacc, ch)

RootOnly(root, hs) == [err |-> root.err, key |-> root.key, hs |-> hs]

\* RegistryKey::from_path: [err, key, hs]
FromPath(path, hs, cacc, ch) ==
    IF ~Contains(path, Sep) THEN RootOnly(GetRootFromName(path), hs)
    ELSE FromPathSplit(path, FirstIndex(path, Sep), hs, cacc, ch)

\* get_layouts_key (main.rs)
GetLayoutsKey(hs, cacc, ch) == FromPath(LayoutsKeyPath, hs, cacc, ch)

(***************************************************************************)
(* Enumeration (registry_key.rs).  An iterator is a record:                *)
(*   mode     "none", "names" (iter_children_names) or "children"          *)
(*   key      the key it borrows                                           *)
(*   single   it is the one-item iterator built when the key-info query    *)
(*            fails, and pending says whether that item is still to come   *)
(*   index    the closure's index                                          *)
(*   bufLen   name_buf.len()                                               *)
(*   ended    the last advance returned None                               *)
(***************************************************************************)
FaultCode == "ERROR_GEN_FAILURE"

NoItem == [kind |-> "None", name |-> <<>>, err |-> "", key |-> NoKey]
OkName(name) == [kind |-> "Ok", name |-> name, err |-> "", key |-> NoKey]
OkKey(key) == [kind |-> "Ok", name |-> <<>>, err |-> "", key |-> key]
ErrItem(err) == [kind |-> "Err", name |-> <<>>, err |-> err, key |-> NoKey]

NoIter == [mode |-> "none", key |-> NoKey, single |-> FALSE, pending |-> FALSE,
           index |-> 0, bufLen |-> 0, ended |-> FALSE]

\* RegQueryInfoKeyW(lpcMaxSubKeyLen) on key k.
RegQueryInfoKeyW(k, iErr) ==
    IF iErr /\ k.path = ContainerPath THEN FaultCode ELSE "ERROR_SUCCESS"

\* RegEnumKeyExW: the code for the index-th child (0-based) of the key at `path`
\* into a buffer announced as `cap` units.
RegEnumKeyExW(path, index, cap, cacc, ch, eErr) ==
    IF path = ContainerPath /\ eErr = index + 1 THEN FaultCode
    ELSE IF index >= ChildCount(path, cacc, ch) THEN "ERROR_NO_MORE_ITEMS"
    ELSE IF Len(ChildNameAt(path, index + 1, ch)) + 1 > cap THEN "ERROR_MORE_DATA"
    ELSE "ERROR_SUCCESS"

\* iter_children_names up to the construction of the iterator.
IterChildrenNames(k, cacc, ch, iErr) ==
    IF RegQueryInfoKeyW(k, iErr) # "ERROR_SUCCESS"
    THEN [NoIter EXCEPT !.mode = "names", !.key = k, !.single = TRUE, !.pending = TRUE]
    ELSE [NoIter EXCEPT !.mode = "names", !.key = k,
                        !.bufLen = MaxNameLen(k.path, cacc, ch) + 1]

\* next() of [Err(e)].into_iter()
SingleNext(it) ==
    IF it.pending
    THEN [some |-> TRUE, item |-> ErrItem(RegistryErrorFrom(FaultCode)),
          it |-> [it EXCEPT !.pending = FALSE]]
    ELSE [some |-> FALSE, item |-> NoItem, it |-> [it EXCEPT !.ended = TRUE]]

\* The from_fn closure after RegEnumKeyExW has answered `code`.
EnumAnswered(it, code, ch) ==
    IF code = "ERROR_NO_MORE_ITEMS"
    THEN [some |-> FALSE, item |-> NoItem, it |-> [it EXCEPT !.ended = TRUE]]
    ELSE IF code # "ERROR_SUCCESS"
    THEN [some |-> TRUE, item |-> ErrItem(RegistryErrorFrom(code)),
          it |-> [it EXCEPT !.ended = FALSE]]
    ELSE [some |-> TRUE, item |-> OkName(ChildNameAt(it.key.path, it.index + 1, ch)),
          it |-> [it EXCEPT !.index = @ + 1, !.ended = FALSE]]

\* let mut name_len = name_buf.len() as u32 + 1: the capacity, in code units,
\* announced to RegEnumKeyExW for a buffer of it.bufLen units.
ReportedCapacity(it) == it.bufLen + 1

NamesNextSkipsFirst(it, cacc, ch, eErr) ==
    IF it.single THEN SingleNext(it)
    ELSE EnumAnswered([it EXCEPT !.index = IF @ = 0 THEN 1 ELSE @],
                      RegEnumKeyExW(it.key.path, IF it.index = 0 THEN 1 ELSE it.index,
                                    it.bufLen + 1, cacc, ch, eErr), ch)

\* One advance of the iterator of iter_children_names: [some, item, it]
NamesNext(it, cacc, ch, eErr) ==
    IF it.single THEN SingleNext(it)
    ELSE EnumAnswered(it, RegEnumKeyExW(it.key.path, it.index, ReportedCapacity(it),
                                        cacc, ch, eErr), ch)

\* name_res.and_then(|name| self.get_subkey(&name)) once get_subkey has returned r.
SubkeyItem(n, r) ==
    [some |-> TRUE,
     item |-> IF r.err = "Ok" THEN OkKey(r.key) ELSE ErrItem(r.err),
     it |-> n.it, hs |-> r.hs]

ChildrenMapEndsOnFailure(k, n, hs, cacc, ch) ==
    IF ~n.some \/ n.item.kind = "Err" \/ ChildAccess(ch, n.item.name) # "ok"
    THEN [some |-> FALSE, item |-> NoItem, it |-> [n.it EXCEPT !.ended = TRUE], hs |-> hs]
    ELSE SubkeyItem(n, GetSubkey(k, n.item.name, hs, cacc, ch))

\* The map closure of iter_children applied to what the name iterator gave.
ChildrenMap(k, n, hs, cacc, ch) ==
    IF ~n.some \/ n.item.kind = "Err"
    THEN [some |-> n.some, item |-> n.item, it |-> n.it, hs |-> hs]
    ELSE SubkeyItem(n, GetSubkey(k, n.item.name, hs, cacc, ch))

\* One advance of the iterator of iter_children: [some, item, it, hs]
ChildrenNext(it, hs, cacc, ch, eErr) ==
    ChildrenMap(it.key, NamesNext(it, cacc, ch, eErr), hs, cacc, ch)

\* iter_children up to the construction of the iterator.
IterChildren(k, cacc, ch, iErr) ==
    [IterChildrenNames(k, cacc, ch, iErr) EXCEPT !.mode = "children"]

(***************************************************************************)
(* The allocators (main.rs).  A result is [kind, str, num, msg]:           *)
(*   kind "Ok" with str (a key name) or num (an id); kind "Err" with msg;  *)
(*   kind "Panic" with msg when the call aborts.                           *)
(***************************************************************************)
OkStr(str) == [kind |-> "Ok", str |-> str, num |-> 0, msg |-> ""]
OkNum(num) == [kind |-> "Ok", str |-> <<>>, num |-> num, msg |-> ""]
Err(msg) == [kind |-> "Err", str |-> <<>>, num |-> 0, msg |-> msg]
Panic(msg) == [kind |-> "Panic", str |-> <<>>, num |-> 0, msg |-> msg]

\* "No more layout keys for this locale are available." / "No more layout IDs are
\* available."
ExhaustedKeys == "ExhaustedKeys"
ExhaustedIds == "ExhaustedIds"

\* Opening a child of the container and dropping the key again, as the body of
\* either loop does with a child that exists.
OpenDropAs(hs, h) ==
    DropKey([hkey |-> h, path |-> ContainerPath \o <<Sep, "child">>],
            [hs EXCEPT !.open = @ \cup {h}])

OpenDrop(hs) == OpenDropAs(hs, FreshHandle(hs))

\* The handle table after cnt iterations that each open and drop a child.
RECURSIVE AfterOpenDrops(_, _)
AfterOpenDropsFrom(hs, next, cnt) ==
    IF next = hs THEN hs ELSE AfterOpenDrops(next, cnt - 1)

AfterOpenDrops(hs, cnt) ==
    IF cnt <= 0 THEN hs ELSE AfterOpenDropsFrom(hs, OpenDrop(hs), cnt)

\* id = 0xf0000000 | (locale_id as u32), as limbs.
KeyStartHi == BitOr16(KeyBaseHi, 0)
KeyStartLo(locale) == BitOr16(0, locale)

\* The high limb of id after k executions of `id += 0x000f0000` (wrapping, as the
\* release build computes it; the debug build stops at the first overflow).
KeyCandidateHi(k) == (KeyStartHi + k * KeyStepHi) % U16Limit

\* id | 0xffff0000 == 0xffff0000
ExhaustedCheck(hi, lo) == BitOr16(hi, KeyMaskHi) = KeyMaskHi /\ BitOr16(lo, 0) = 0

\* id += 0x000f0000 does not fit in 32 bits.
AddOverflows(hi) == hi + KeyStepHi >= U16Limit

\* How one iteration of the loop of get_next_layout_key ends, get_subkey having
\* returned err for the candidate (hi, lo).
KeyStepOn(hi, lo, err, bld) ==
    IF err = "NotFound" THEN "free"
    ELSE IF err # "Ok" THEN "error"
    ELSE IF ExhaustedCheck(hi, lo) THEN "exhausted"
    ELSE IF AddOverflows(hi) /\ bld = "debug" THEN "overflow"
    ELSE "next"

\* get_subkey(&id_str) in iteration k (k = 0 is the first).
KeyProbe(k, locale, lk, cacc, ch) ==
    GetSubkey(lk.key, Format08x(KeyCandidateHi(k), KeyStartLo(locale)), lk.hs, cacc, ch)

KeyStep(k, locale, lk, cacc, ch, bld) ==
    KeyStepOn(KeyCandidateHi(k), KeyStartLo(locale),
              KeyProbe(k, locale, lk, cacc, ch).err, bld)

\* The iteration in which the loop is left: the first that does not end in
\* "next".  Every "next" uses up one child, so it is at most the number of children.
LastKeyIteration(locale, lk, cacc, ch, bld) ==
    CHOOSE k \in 0..NumChildren(ch) :
        /\ KeyStep(k, locale, lk, cacc, ch, bld) # "next"
        /\ \A j \in 0..(k - 1) : KeyStep(j, locale, lk, cacc, ch, bld) = "next"

\* What get_next_layout_key returns when iteration `last` ends as `kind`.
KeyLoopReturn(lk, last, kind, name, err) ==
    [res |-> CASE kind = "free" -> OkStr(name)
               [] kind = "error" -> Err(err)
               [] kind = "exhausted" -> Err(ExhaustedKeys)
               [] OTHER -> Panic("attempt to add with overflow"),
     hs |-> DropKey(lk.key,
                    AfterOpenDrops(lk.hs, IF kind \in {"free", "error"} THEN last
                                          ELSE last + 1))]

KeyLoopLeave(lk, last, locale, cacc, ch, bld) ==
    KeyLoopReturn(lk, last, KeyStep(last, locale, lk, cacc, ch, bld),
                  Format08x(KeyCandidateHi(last), KeyStartLo(locale)),
                  KeyProbe(last, locale, lk, cacc, ch).err)

\* get_next_layout_key with the result of get_layouts_key at hand.
KeyLoop(lk, locale, cacc, ch, bld) ==
    IF lk.err # "Ok" THEN [res |-> Err(lk.err), hs |-> lk.hs]
    ELSE KeyLoopLeave(lk, LastKeyIteration(locale, lk, cacc, ch, bld),
                      locale, cacc, ch, bld)

\* get_next_layout_key(locale_id): [res, hs]
GetNextLayoutKey(locale, hs, cacc, ch, bld) ==
    KeyLoop(GetLayoutsKey(hs, cacc, ch), locale, cacc, ch, bld)

(***************************************************************************)
(* get_next_layout_id (main.rs).                                           *)
(***************************************************************************)
\* try_get_value(Some("Layout Id")) on the opened child c: the value, or NoValue
\* for Ok(None).
TryGetValue(c) == c.id

\* RegistryValue::unwrap_str
UnwrapStr(v) == v.str

\* layout_ids_used.len()
LayoutIdsLen == LayoutIdEnd - LayoutIdBase

\* mark_layout_id_used(u16::from_str_radix(..).unwrap()) with the parse result n.
MarkParsed(n) ==
    IF n < 0 THEN "parse_panic"
    ELSE IF n < LayoutIdBase THEN "skip"
    ELSE IF n - LayoutIdBase >= LayoutIdsLen THEN "index_panic"
    ELSE "mark"

\* The body of the for loop on an opened child whose "Layout Id" read gave v.
IdBody(v) ==
    IF v.type = "None" THEN "skip" ELSE MarkParsed(ParseHexU16(UnwrapStr(v)))

\* The i-th advance of layout_keys_iter (i = 1 is the first) and the loop body on
\* its item, RegEnumKeyExW having answered `code`.  The names of the children are
\* distinct, so opening the i-th name opens the i-th child.
IdStepOn(code, c) ==
    IF code = "ERROR_NO_MORE_ITEMS" THEN "end"
    ELSE IF code # "ERROR_SUCCESS" THEN "enum_err"
    ELSE IF c.access # "ok" THEN "open_err"
    ELSE IdBody(TryGetValue(c))

NoChild == [name |-> <<>>, access |-> "none", id |-> NoValue]

IdStep(i, it0, cacc, ch, eErr) ==
    IF it0.single THEN (IF i = 1 THEN "enum_err" ELSE "end")
    ELSE IdStepOn(RegEnumKeyExW(it0.key.path, i - 1, it0.bufLen + 1, cacc, ch, eErr),
                  IF i <= NumChildren(ch) THEN ChildAt(ch, i) ELSE NoChild)

\* How each advance the loop can reach ends, in order.
IdSteps(it0, cacc, ch, eErr) ==
    SubSeq([i \in 1..(NumChildren(ch) + 1) |-> IdStep(i, it0, cacc, ch, eErr)],
           1, NumChildren(ch) + 1)

\* The advance with which the for loop is left.
LastIdIteration(steps) ==
    CHOOSE i \in 1..Len(steps) :
        /\ steps[i] \notin {"skip", "mark"}
        /\ \A j \in 1..(i - 1) : steps[j] \in {"skip", "mark"}

\* The identifiers whose slot of layout_ids_used is true after the loop.
IdsMarked(last, steps, ch) ==
    {id \in {ParseHexU16(UnwrapStr(TryGetValue(ChildAt(ch, i)))) :
                i \in {j \in 1..(last - 1) : steps[j] = "mark"}} :
        id - LayoutIdBase < LayoutIdsLen}

CheckLayoutIdUsedNever(used, id) == FALSE

\* check_layout_id_used
CheckLayoutIdUsed(used, id) == id \in used

FirstFreeLayoutIdFromOne(used) ==
    IF \A id \in (LayoutIdBase + 1)..(LayoutIdEnd - 1) : CheckLayoutIdUsed(used, id) THEN -1
    ELSE CHOOSE id \in (LayoutIdBase + 1)..(LayoutIdEnd - 1) :
            /\ ~CheckLayoutIdUsed(used, id)
            /\ \A v \in (LayoutIdBase + 1)..(id - 1) : CheckLayoutIdUsed(used, v)

\* for id in 0x0F00..0xF000: the first id that is not used, or -1.
FirstFreeLayoutId(used) ==
    IF \A id \in LayoutIdBase..(LayoutIdEnd - 1) : CheckLayoutIdUsed(used, id) THEN -1
    ELSE CHOOSE id \in LayoutIdBase..(LayoutIdEnd - 1) :
            /\ ~CheckLayoutIdUsed(used, id)
            /\ \A v \in LayoutIdBase..(id - 1) : CheckLayoutIdUsed(used, v)

\* The return after the scan found `free`.
ScanReturn(free) == IF free < 0 THEN Err(ExhaustedIds) ELSE OkNum(free)

\* The error the failing advance carries.
IdStepError(kind, it0, c) ==
    IF kind = "open_err" THEN RegistryErrorFrom(AccessCode(c.access))
    ELSE RegistryErrorFrom(FaultCode)

\* What get_next_layout_id returns when advance `last` ends the loop as `kind`.
IdLoopReturn(lk, last, kind, used, err) ==
    [res |-> CASE kind = "end" -> ScanReturn(FirstFreeLayoutId(used))
               [] kind \in {"enum_err", "open_err"} -> Err(err)
               [] kind = "parse_panic" -> Panic("unwrap on a parse error")
               [] OTHER -> Panic("index out of bounds"),
     hs |-> DropKey(lk.key,
                    AfterOpenDrops(lk.hs, IF kind \in {"parse_panic", "index_panic"}
                                          THEN last ELSE last - 1))]

IdLoopLeave(lk, last, steps, it0, ch) ==
    IdLoopReturn(lk, last, steps[last], IdsMarked(last, steps, ch),
                 IdStepError(steps[last], it0,
                             IF last <= NumChildren(ch) THEN ChildAt(ch, last) ELSE NoChild))

IdLoopOn(lk, steps, it0, ch) == IdLoopLeave(lk, LastIdIteration(steps), steps, it0, ch)

IdLoopOver(lk, it0, cacc, ch, eErr) == IdLoopOn(lk, IdSteps(it0, cacc, ch, eErr), it0, ch)

\* get_next_layout_id with the result of get_layouts_key at hand.
IdLoop(lk, cacc, ch, iErr, eErr) ==
    IF lk.err # "Ok" THEN [res |-> Err(lk.err), hs |-> lk.hs]
    ELSE IdLoopOver(lk, IterChildren(lk.key, cacc, ch, iErr), cacc, ch, eErr)

\* get_next_layout_id(): [res, hs]
GetNextLayoutId(hs, cacc, ch, iErr, eErr) ==
    IdLoop(GetLayoutsKey(hs, cacc, ch), cacc, ch, iErr, eErr)

(***************************************************************************)
(* create_subkey, get_parent, close (registry_key.rs).                     *)
(***************************************************************************)
\* RegCreateKeyExW on a path the store does not hold creates the key.
CreatedStore(path, cacc, ch) ==
    IF path = ContainerPath THEN [cacc |-> "ok", ch |-> ch]
    ELSE [cacc |-> cacc,
          ch |-> [ch EXCEPT !.list =
                     Append(@, Child(SubSeq(path, Len(ContainerPath) + 2, Len(path)),
                                     "ok", NoValue))]]

\* create_subkey after RegCreateKeyExW: `code` is what opening the path answers.
CreateAnswered(k, name, hs, code, h, cacc, ch) ==
    IF code = "ERROR_ACCESS_DENIED"
    THEN [err |-> RegistryErrorFrom(code), key |-> NoKey, hs |-> hs,
          store |-> [cacc |-> cacc, ch |-> ch]]
    ELSE [err |-> "Ok",
          key |-> [hkey |-> h, path |-> k.path \o <<Sep>> \o name],
          hs |-> [hs EXCEPT !.open = @ \cup {h}],
          store |-> IF code = "ERROR_SUCCESS" THEN [cacc |-> cacc, ch |-> ch]
                    ELSE CreatedStore(k.path \o <<Sep>> \o name, cacc, ch)]

\* RegistryKey::create_subkey: [err, key, hs, store]
CreateSubkey(k, name, hs, cacc, ch) ==
    IF Contains(name, Nul)
    THEN [err |-> "Other", key |-> NoKey, hs |-> hs, store |-> [cacc |-> cacc, ch |-> ch]]
    ELSE CreateAnswered(k, name, hs, KeyStatus(k.path \o <<Sep>> \o name, cacc, ch),
                        FreshHandle(hs), cacc, ch)

\* The paths RegCreateKeyExW can create in this store: the container when it is
\* missing, and a new child of the container.
Creatable(path, cacc, ch) ==
    \/ path = ContainerPath /\ cacc = "missing"
    \/ /\ cacc = "ok"
       /\ Len(path) > Len(ContainerPath) + 1
       /\ IsPrefix(ContainerPath \o <<Sep>>, path)
       /\ ~Contains(SubSeq(path, Len(ContainerPath) + 2, Len(path)), Sep)

GetParentReopensSelf(k, hs, cacc, ch) ==
    IF IsRootKey(k) THEN [err |-> "Other", key |-> NoKey, hs |-> hs]
    ELSE FromPath(k.path, hs, cacc, ch)
\* RegistryKey::get_parent: [err, key, hs]
GetParent(k, hs, cacc, ch) ==
    IF IsRootKey(k) THEN [err |-> "Other", key |-> NoKey, hs |-> hs]
    ELSE FromPath(SubSeq(k.path, 1, LastIndex(k.path, Sep) - 1), hs, cacc, ch)

\* RegistryKey::close
Close(k, hs) == DropKey(k, hs)

\* impl PartialEq for RegistryKey: the same handle, or paths that match when
\* ASCII case is ignored.
KeyEq(a, b) == a.hkey = b.hkey \/ ToUppercase(a.path) = ToUppercase(b.path)

\* Opening the root named rootName and then get_subkey(s) for every segment s
\* of segs in turn, each on the key the step before returned: [err, key, hs].
RECURSIVE NavigateFrom(_, _, _, _)
NavigateFrom(r, segs, cacc, ch) ==
    IF r.err # "Ok" \/ segs = <<>> THEN r
    ELSE NavigateFrom(GetSubkey(r.key, Head(segs), r.hs, cacc, ch), Tail(segs), cacc, ch)

Navigate(rootName, segs, hs, cacc, ch) ==
    NavigateFrom(RootOnly(GetRootFromName(<<rootName>>), hs), segs, cacc, ch)

\* The path string "R\\s1\\...\\sn".
RECURSIVE JoinPath(_, _)
JoinPath(head, segs) ==
    IF segs = <<>> THEN head ELSE JoinPath(head \o <<Sep>> \o Head(segs), Tail(segs))

\* The path of k with its last segment stripped.
ParentPath(k) == SubSeq(k.path, 1, LastIndex(k.path, Sep) - 1)

(***************************************************************************)
(* The value codec (registry_value.rs).  A string is a sequence of Unicode *)
(* scalar values; raw data is a sequence of bytes.                         *)
(***************************************************************************)
\* str::encode_utf16 of one scalar: one unit, or a surrogate pair.
EncodeScalar(c) ==
    IF c < 65536 THEN <<c>>
    ELSE <<55296 + ((c - 65536) \div 1024), 56320 + ((c - 65536) % 1024)>>

RECURSIVE EncodeUtf16(_)
EncodeUtf16(str) ==
    IF str = <<>> THEN <<>> ELSE EncodeScalar(Head(str)) \o EncodeUtf16(Tail(str))

\* data.push((c & 0xFF) as u8); data.push((c >> 8) as u8) for every unit.
RECURSIVE UnitBytes(_)
UnitBytes(units) ==
    IF units = <<>> THEN <<>>
    ELSE <<Head(units) % 256, Head(units) \div 256>> \o UnitBytes(Tail(units))

\* The bytes to_raw pushes for one string of a multi-string: units, then 0, 0.
StringBytes(str) == UnitBytes(EncodeUtf16(str)) \o <<0, 0>>

RECURSIVE AllStringBytes(_)
AllStringBytes(strs) ==
    IF strs = <<>> THEN <<>> ELSE StringBytes(Head(strs)) \o AllStringBytes(Tail(strs))

\* An integer is kept as its 16-bit limbs, most significant first: a Dword has
\* two, a Qword four.
ToLeBytesMostSignificantFirst(limbs) ==
    [j \in 1..(2 * Len(limbs)) |->
        IF j % 2 = 1 THEN limbs[(j + 1) \div 2] \div 256 ELSE limbs[(j + 1) \div 2] % 256]

\* u32::to_le_bytes / u64::to_le_bytes: the least significant byte first.
ToLeBytes(limbs) ==
    [j \in 1..(2 * Len(limbs)) |->
        IF j % 2 = 1 THEN limbs[Len(limbs) - (j - 1) \div 2] % 256
        ELSE limbs[Len(limbs) - (j - 1) \div 2] \div 256]

\* u32::from_le_bytes / u64::from_le_bytes
FromLeBytes(b) ==
    [i \in 1..(Len(b) \div 2) |-> b[Len(b) - 2 * i + 1] + 256 * b[Len(b) - 2 * i + 2]]

FromBeBytesReadsLittleEndian(b) ==
    [i \in 1..(Len(b) \div 2) |-> b[Len(b) - 2 * i + 1] + 256 * b[Len(b) - 2 * i + 2]]

\* u32::from_be_bytes
FromBeBytes(b) == [i \in 1..(Len(b) \div 2) |-> 256 * b[2 * i - 1] + b[2 * i]]

\* RegistryValueData::to_raw: (tag, bytes)
ToRaw(v) ==
    CASE v.type = "MultiString" ->
            [tag |-> "REG_MULTI_SZ", data |-> AllStringBytes(v.strs) \o <<0, 0>>]
      [] v.type = "Dword" ->
            [tag |-> "REG_DWORD_LITTLE_ENDIAN", data |-> ToLeBytes(v.limbs)]
      [] v.type = "Qword" ->
            [tag |-> "REG_QWORD_LITTLE_ENDIAN", data |-> ToLeBytes(v.limbs)]
      [] v.type = "String" ->
            [tag |-> "REG_SZ", data |-> UnitBytes(EncodeUtf16(v.str)) \o <<0, 0>>]
      [] v.type = "ExpandString" ->
            [tag |-> "REG_EXPAND_SZ", data |-> UnitBytes(EncodeUtf16(v.str)) \o <<0, 0>>]
      [] v.type = "Binary" -> [tag |-> "REG_BINARY", data |-> v.data]
      [] OTHER -> [tag |-> "REG_NONE", data |-> <<>>]

\* Vec<u8>::to_u16_slice: len / 2 units, low byte first.
ToU16Slice(data) == [i \in 1..(Len(data) \div 2) |-> data[2 * i - 1] + 256 * data[2 * i]]

IsHighSurrogate(u) == u >= 55296 /\ u < 56320
IsLowSurrogate(u) == u >= 56320 /\ u < 57344

\* String::from_utf16_lossy: pairs are joined, a lone surrogate becomes U+FFFD.
RECURSIVE FromUtf16Lossy(_)
FromUtf16Lossy(units) ==
    IF units = <<>> THEN <<>>
    ELSE IF /\ IsHighSurrogate(units[1])
            /\ Len(units) >= 2
            /\ IsLowSurrogate(units[2])
         THEN <<65536 + (units[1] - 55296) * 1024 + (units[2] - 56320)>>
              \o FromUtf16Lossy(SubSeq(units, 3, Len(units)))
         ELSE <<IF IsHighSurrogate(units[1]) \/ IsLowSurrogate(units[1])
                THEN 65533 ELSE units[1]>> \o FromUtf16Lossy(Tail(units))

\* The inner while loop: the first j >= i with j past the end or data_16[j] = 0
\* (positions are 1-based here).
ScanToZero(d, i) ==
    CHOOSE j \in i..(Len(d) + 1) :
        /\ j = Len(d) + 1 \/ d[j] = 0
        /\ \A m \in i..(j - 1) : d[m] # 0

\* The outer while loop of the REG_MULTI_SZ arm, from position i on.
RECURSIVE MultiLoop(_, _, _)
MultiLoopPush(d, i, j, strings) ==
    MultiLoop(d, j + 1, Append(strings, FromUtf16Lossy(SubSeq(d, i, j - 1))))

MultiLoop(d, i, strings) ==
    IF i > Len(d) THEN strings ELSE MultiLoopPush(d, i, ScanToZero(d, i), strings)

\* Err(..) of from_data.
DecodeErr == [type |-> "Err", strs |-> <<>>]

DecodeFixedAtMost(data, width, v) == IF Len(data) > width THEN DecodeErr ELSE v
\* if data.len() != 4 (8) { return Err(..) }, else the integer v read from the bytes.
DecodeFixed(data, width, v) == IF Len(data) # width THEN DecodeErr ELSE v

DwordValue(limbs) == [type |-> "Dword", limbs |-> limbs]
QwordValue(limbs) == [type |-> "Qword", limbs |-> limbs]
TextValue(str) == [type |-> "String", str |-> str]
ExpandValue(str) == [type |-> "ExpandString", str |-> str]
BinaryValue(data) == [type |-> "Binary", data |-> data]
NoneValue == [type |-> "NoneData"]       \* RegistryValueData::None

\* U16CString::from_vec_truncate: the units before the first zero unit.
FromVecTruncate(units) == SubSeq(units, 1, ScanToZero(units, 1) - 1)

\* U16CString::to_string fails on a surrogate that is not part of a pair.
Utf16Valid(units) ==
    \A i \in 1..Len(units) :
        /\ IsHighSurrogate(units[i]) => i < Len(units) /\ IsLowSurrogate(units[i + 1])
        /\ IsLowSurrogate(units[i]) => i > 1 /\ IsHighSurrogate(units[i - 1])

\* The REG_SZ arm on the truncated units.
DecodeSz(units) ==
    IF Utf16Valid(units) THEN TextValue(FromUtf16Lossy(units)) ELSE DecodeErr

\* RegistryValueData::from_data
FromData(tag, data) ==
    CASE tag = "REG_MULTI_SZ" ->
            [type |-> "MultiString", strs |-> MultiLoop(ToU16Slice(data), 1, <<>>)]
      [] tag = "REG_DWORD_LITTLE_ENDIAN" ->
            DecodeFixed(data, 4, DwordValue(FromLeBytes(data)))
      [] tag = "REG_DWORD_BIG_ENDIAN" ->
            DecodeFixed(data, 4, DwordValue(FromBeBytes(data)))
      [] tag = "REG_QWORD_LITTLE_ENDIAN" ->
            DecodeFixed(data, 8, QwordValue(FromLeBytes(data)))
      [] tag = "REG_SZ" -> DecodeSz(FromVecTruncate(ToU16Slice(data)))
      [] tag = "REG_EXPAND_SZ" -> ExpandValue(FromUtf16Lossy(ToU16Slice(data)))
      [] tag = "REG_NONE" -> NoneValue
      [] tag = "REG_BINARY" -> BinaryValue(data)
      [] OTHER -> DecodeErr

(***************************************************************************)
(* get_value, try_get_value, set_value (registry_key.rs) on a key that     *)
(* holds at most one value, named "Layout Id".  `stored` is the (tag,      *)
(* bytes) pair the store holds for it, NoRaw when it holds none; a fault   *)
(* is the code a store call answers instead of doing its work.             *)
(***************************************************************************)
NoRaw == [tag |-> "", data |-> <<>>]
NoName == [some |-> FALSE, str |-> <<>>]              \* None
SomeName(str) == [some |-> TRUE, str |-> str]          \* Some(str)
LayoutIdName == SomeName(<<"Layout Id">>)

OkValue(v) == [kind |-> "Ok", err |-> "", some |-> TRUE, value |-> v]
OkNone == [kind |-> "Ok", err |-> "", some |-> FALSE, value |-> NoneValue]
OkUnit == [kind |-> "Ok", err |-> "", some |-> FALSE, value |-> NoneValue]
ErrValue(err) == [kind |-> "Err", err |-> err, some |-> FALSE, value |-> NoneValue]
PanicValue == [kind |-> "Panic", err |-> "", some |-> FALSE, value |-> NoneValue]

\* U16CString::from_str(name): an interior zero unit is an error.
NameConverts(name) == ~name.some \/ ~Contains(name.str, Nul)

\* What the store holds under `name`.
Lookup(name, stored) == IF name = LayoutIdName THEN stored ELSE NoRaw

\* RegGetValueW: the code it answers.
RegGetValueW(name, stored, fault) ==
    IF fault # "ERROR_SUCCESS" THEN fault
    ELSE IF Lookup(name, stored) = NoRaw THEN "ERROR_FILE_NOT_FOUND"
    ELSE "ERROR_SUCCESS"

\* RegistryValue::new_from_data(..).map_err(RegistryError::Other)
GetValueDecoded(v) == IF v = DecodeErr THEN ErrValue("Other") ELSE OkValue(v)

\* get_value after the two calls of RegGetValueW answered code1 and code2.
GetValueAnswered(code1, code2, found) ==
    IF code1 # "ERROR_SUCCESS" THEN ErrValue(RegistryErrorFrom(code1))
    ELSE IF code2 # "ERROR_SUCCESS" THEN ErrValue(RegistryErrorFrom(code2))
    ELSE GetValueDecoded(FromData(found.tag, found.data))

\* RegistryKey::get_value
GetValue(name, stored, fault1, fault2) ==
    IF ~NameConverts(name) THEN ErrValue("Other")
    ELSE GetValueAnswered(RegGetValueW(name, stored, fault1),
                          RegGetValueW(name, stored, fault2), Lookup(name, stored))

TryGetValueHidesEveryError(res) == IF res.kind = "Err" THEN OkNone ELSE res
\* RegistryKey::try_get_value, get_value having returned res.
TryGetValueResult(res) ==
    IF res.kind = "Err" THEN (IF res.err = "NotFound" THEN OkNone ELSE res) ELSE res

\* RegSetValueExW: what the store holds afterwards.
RegSetValueExW(name, rawValue, stored) == IF name = LayoutIdName THEN rawValue ELSE stored

\* set_value after the name was converted: [res, stored]
SetValueAnswered(name, rawValue, stored, fault) ==
    IF fault # "ERROR_SUCCESS"
    THEN [res |-> ErrValue(RegistryErrorFrom(fault)), stored |-> stored]
    ELSE [res |-> OkUnit, stored |-> RegSetValueExW(name, rawValue, stored)]

\* RegistryKey::set_value: the conversion of the name is unwrapped.
SetValue(name, v, stored, fault) ==
    IF ~NameConverts(name) THEN [res |-> PanicValue, stored |-> stored]
    ELSE SetValueAnswered(name, ToRaw(v), stored, fault)

(***************************************************************************)
(* The stores and inputs the checks start from.                            *)
(***************************************************************************)
Locales == {0, LocaleEnUs}

\* Children a small store is built from: the first two candidates of locale
\* 0x0409 (holding the ids 0x0F00 and 0x0F01), the first candidate of locale 0
\* (no "Layout Id"), a child that cannot be opened, and children holding an id
\* below the range, the id 0xF000 and the id 0x0F03.
Catalog ==
    <<Child(Format08x(KeyBaseHi, LocaleEnUs), "ok", StrValue(Format04x(LayoutIdBase))),
      Child(Format08x(KeyBaseHi + KeyStepHi, LocaleEnUs), "ok",
            StrValue(Format04x(LayoutIdBase + 1))),
      Child(Format08x(KeyBaseHi, 0), "ok", NoValue),
      Child(<<"a">>, "denied", NoValue),
      Child(<<"b", "c", "d">>, "ok", StrValue(Format04x(LayoutIdBase - 1))),
      Child(<<"e">>, "ok", StrValue(Format04x(LayoutIdEnd))),
      Child(<<"f">>, "ok", StrValue(Format04x(LayoutIdBase + 3)))>>

\* Sequences of n different catalog children.
RECURSIVE Picks(_)
Picks(n) ==
    IF n = 0 THEN {<<>>}
    ELSE {Append(q, c) : q \in Picks(n - 1), c \in 1..Len(Catalog)}

SmallStores ==
    {Listed(SubSeq([i \in 1..Len(q) |-> Catalog[q[i]]], 1, Len(q))) :
        q \in {r \in UNION {Picks(n) : n \in 0..MaxChildren} :
                  \A i, j \in 1..Len(r) : i # j => r[i] # r[j]}}

\* The store of the documented example: ids {0x0F00, 0x0F01, 0x0F03}.
ExampleStore == Listed(<<Catalog[1], Catalog[2], Catalog[7]>>)

\* Candidates of one locale before `id += 0x000f0000` leaves 32 bits.
NumCandidates == (U16Limit - 1 - KeyBaseHi) \div KeyStepHi + 1

\* The first n candidates of `locale` all exist.
KeyFullStore(locale, n) ==
    Listed(SubSeq([k \in 1..n |->
                      Child(Format08x(KeyCandidateHi(k - 1), KeyStartLo(locale)),
                            "ok", NoValue)],
                  1, n))

KeyFullStores ==
    {KeyFullStore(LocaleEnUs, NumCandidates), KeyFullStore(LocaleEnUs, NumCandidates - 1)}

\* One child per identifier the array layout_ids_used has a slot for, and the
\* same store without the child of the last slot.
IdFullStores ==
    {[list |-> <<>>, fill |-> LayoutIdsLen], [list |-> <<>>, fill |-> LayoutIdsLen - 1]}

\* The stores the key-handle operations start from: nothing, an openable child
\* (the first candidate of locale 0), a denied child.
HandleStores == {Listed(<<>>), Listed(<<Catalog[3]>>), Listed(<<Catalog[4]>>)}

NoHandles == [open |-> {}, bad |-> {}]
NoOutcome == [op |-> "none", arg |-> 0, kind |-> "None", str |-> <<>>, num |-> 0, msg |-> ""]
NoTyped == [type |-> "None", strs |-> <<>>]
NoFiles == [pc |-> "none"]
NoText == [op |-> "none"]
NoRange == [op |-> "none"]
NoSearch == [pc |-> "none"]

\* The utilities at rest.
InitUtil ==
    /\ files = NoFiles
    /\ text = NoText
    /\ range = NoRange
    /\ search = NoSearch

NoInstallers == <<>>
NoAnswer == [op |-> "none"]

Crashed == outcome.kind = "Panic"

\* Everything but the store.
InitRest ==
    /\ handles = NoHandles
    /\ keys = {}
    /\ iter = NoIter
    /\ items = <<>>
    /\ tick = 0
    /\ outcome = NoOutcome
    /\ value = NoTyped
    /\ raw = NoRaw
    /\ decoded = NoTyped
    /\ installers = NoInstallers
    /\ answer = NoAnswer
    /\ InitUtil

\* A small store, with or without enumeration faults.
InitSmallStore ==
    /\ containerAccess \in {"ok", "denied", "missing"}
    /\ children \in SmallStores
    /\ containerAccess = "missing" => children = Listed(<<>>)
    /\ infoErr \in BOOLEAN
    /\ enumErr \in 0..(NumChildren(children) + 1)
    /\ containerAccess # "ok" => ~infoErr /\ enumErr = 0

(***************************************************************************)
(* Actions: one per operation the caller can invoke.                       *)
(***************************************************************************)
MaxItems == MaxChildren + 2     \* items kept in the log of the iterator

\* Inputs of the key operations.
Paths == {<<"hklm">>, LayoutsKeyPath, <<"nope", Sep, "SYSTEM">>}
SubkeyNames == {ContainerSubPath, Catalog[3].name, Catalog[4].name, <<Nul>>}
CreateNames == {ContainerSubPath, Catalog[3].name, <<Nul>>}

\* The caller takes ownership of the key a successful call returned.
Own(r) == IF r.err = "Ok" THEN keys \cup {r.key} ELSE keys

\* RegistryKey::from_path(path)
CallFromPath(path) ==
    /\ ~Crashed
    /\ Cardinality(keys) < MaxKeys
    /\ \E r \in {FromPath(path, handles, containerAccess, children)} :
          /\ handles' = r.hs
          /\ keys' = Own(r)
    /\ UNCHANGED <<storeVars, iterVars, outcome, codecVars, auxVars, utilVars>>

\* k.get_subkey(name)
CallGetSubkey(k, name) ==
    /\ ~Crashed
    /\ k \in keys
    /\ Cardinality(keys) < MaxKeys
    /\ \E r \in {GetSubkey(k, name, handles, containerAccess, children)} :
          /\ handles' = r.hs
          /\ keys' = Own(r)
    /\ UNCHANGED <<storeVars, iterVars, outcome, codecVars, auxVars, utilVars>>

\* k.create_subkey(name)
CallCreateSubkey(k, name) ==
    /\ ~Crashed
    /\ k \in keys
    /\ Cardinality(keys) < MaxKeys
    /\ \/ KeyStatus(k.path \o <<Sep>> \o name, containerAccess, children)
              # "ERROR_FILE_NOT_FOUND"
       \/ Contains(name, Nul)
       \/ /\ Creatable(k.path \o <<Sep>> \o name, containerAccess, children)
          /\ NumChildren(children) < MaxChildren
    /\ \E r \in {CreateSubkey(k, name, handles, containerAccess, children)} :
          /\ handles' = r.hs
          /\ keys' = Own(r)
          /\ containerAccess' = r.store.cacc
          /\ children' = r.store.ch
    /\ UNCHANGED <<infoErr, enumErr, build, iterVars, outcome, codecVars, auxVars, utilVars>>

\* k.get_parent()
CallGetParent(k) ==
    /\ ~Crashed
    /\ k \in keys
    /\ Cardinality(keys) < MaxKeys
    /\ \E r \in {GetParent(k, handles, containerAccess, children)} :
          /\ handles' = r.hs
          /\ keys' = Own(r)
    /\ UNCHANGED <<storeVars, iterVars, outcome, codecVars, auxVars, utilVars>>

\* k.close(); an iterator borrows its key, which cannot be moved meanwhile.
CallClose(k) ==
    /\ ~Crashed
    /\ k \in keys
    /\ iter.mode = "none" \/ iter.key # k
    /\ handles' = Close(k, handles)
    /\ keys' = keys \ {k}
    /\ UNCHANGED <<storeVars, iterVars, outcome, codecVars, auxVars, utilVars>>

\* let it = k.iter_children_names()
CallIterChildrenNames(k) ==
    /\ ~Crashed
    /\ k \in keys
    /\ iter.mode = "none"
    /\ iter' = IterChildrenNames(k, containerAccess, children, infoErr)
    /\ items' = <<>>
    /\ tick' = 0
    /\ UNCHANGED <<storeVars, handles, keys, outcome, codecVars, auxVars, utilVars>>

\* let it = k.iter_children()
CallIterChildren(k) ==
    /\ ~Crashed
    /\ k \in keys
    /\ iter.mode = "none"
    /\ iter' = IterChildren(k, containerAccess, children, infoErr)
    /\ items' = <<>>
    /\ tick' = 0
    /\ UNCHANGED <<storeVars, handles, keys, outcome, codecVars, auxVars, utilVars>>

\* What the log keeps of an item: its kind, the name (or the path of the key) of
\* an Ok item, the error of an Err item.
LogEntry(item) ==
    [kind |-> item.kind,
     name |-> IF item.key = NoKey THEN item.name ELSE item.key.path,
     err |-> item.err]

\* The log of yielded items, which keeps the first MaxItems.
Logged(n) ==
    IF n.some /\ Len(items) < MaxItems THEN Append(items, LogEntry(n.item)) ELSE items

\* it.next() on the iterator of iter_children_names
AdvanceNames ==
    /\ ~Crashed
    /\ iter.mode = "names"
    /\ \E n \in {NamesNext(iter, containerAccess, children, enumErr)} :
          /\ iter' = n.it
          /\ items' = Logged(n)
    /\ tick' = 1 - tick
    /\ UNCHANGED <<storeVars, handles, keys, outcome, codecVars, auxVars, utilVars>>

\* it.next() on the iterator of iter_children; the caller keeps the key of an Ok
\* item when it has room for it and drops it otherwise.
AdvanceChildren ==
    /\ ~Crashed
    /\ iter.mode = "children"
    /\ \E n \in {ChildrenNext(iter, handles, containerAccess, children, enumErr)} :
          /\ iter' = n.it
          /\ items' = Logged(n)
          /\ IF n.some /\ n.item.kind = "Ok" /\ Cardinality(keys) < MaxKeys
             THEN keys' = keys \cup {n.item.key} /\ handles' = n.hs
             ELSE IF n.some /\ n.item.kind = "Ok"
                  THEN keys' = keys /\ handles' = DropKey(n.item.key, n.hs)
                  ELSE keys' = keys /\ handles' = n.hs
    /\ tick' = 1 - tick
    /\ UNCHANGED <<storeVars, outcome, codecVars, auxVars, utilVars>>

\* drop(it); the log of its items goes with it.
DropIter ==
    /\ ~Crashed
    /\ iter.mode # "none"
    /\ iter' = NoIter
    /\ items' = <<>>
    /\ tick' = 0
    /\ UNCHANGED <<storeVars, handles, keys, outcome, codecVars, auxVars, utilVars>>

\* get_next_layout_key(locale)
CallGetNextLayoutKey(locale) ==
    /\ ~Crashed
    /\ \E r \in {GetNextLayoutKey(locale, handles, containerAccess, children, build)} :
          /\ outcome' = [op |-> "get_next_layout_key", arg |-> locale,
                         kind |-> r.res.kind, str |-> r.res.str,
                         num |-> r.res.num, msg |-> r.res.msg]
          /\ handles' = r.hs
    /\ UNCHANGED <<storeVars, keys, iterVars, codecVars, auxVars, utilVars>>

\* get_next_layout_id()
CallGetNextLayoutId ==
    /\ ~Crashed
    /\ \E r \in {GetNextLayoutId(handles, containerAccess, children, infoErr, enumErr)} :
          /\ outcome' = [op |-> "get_next_layout_id", arg |-> 0,
                         kind |-> r.res.kind, str |-> r.res.str,
                         num |-> r.res.num, msg |-> r.res.msg]
          /\ handles' = r.hs
    /\ UNCHANGED <<storeVars, keys, iterVars, codecVars, auxVars, utilVars>>

\* let raw = value.to_raw()
Encode ==
    /\ value # NoTyped
    /\ raw = NoRaw
    /\ raw' = ToRaw(value)
    /\ UNCHANGED <<storeVars, handles, keys, iterVars, outcome, value, decoded, auxVars, utilVars>>

\* let decoded = RegistryValueData::from_data(raw.0, raw.1)
Decode ==
    /\ raw # NoRaw
    /\ decoded = NoTyped
    /\ decoded' = FromData(raw.tag, raw.data)
    /\ UNCHANGED <<storeVars, handles, keys, iterVars, outcome, value, raw, auxVars, utilVars>>

\* decoded.to_raw(): a value that was decoded from a buffer is encoded again.
Reencode ==
    /\ value = NoTyped
    /\ decoded.type \in {"Dword", "Qword", "String", "MultiString"}
    /\ answer = NoAnswer
    /\ answer' = [op |-> "to_raw", raw |-> ToRaw(decoded)]
    /\ UNCHANGED <<storeVars, handles, keys, iterVars, outcome, codecVars, installers, utilVars>>

\* The key operation `op` returned r ([err, ..]); the key it may hold is dropped.
Asked(op, name, r) ==
    /\ answer' = [op |-> op, named |-> TRUE, name |-> name,
                  got |-> IF r.err = "Ok" THEN OkUnit ELSE ErrValue(r.err),
                  ref |-> OkUnit]
    /\ handles' = IF r.err = "Ok" THEN DropKey(r.key, r.hs) ELSE r.hs

ValueCrashed == answer.op # "none" /\ answer.op # "to_raw" /\ answer.got.kind = "Panic"

\* drop(k.get_subkey(name)), the result kept
AskGetSubkey(k, name) ==
    /\ ~ValueCrashed
    /\ k \in keys
    /\ \E r \in {GetSubkey(k, name, handles, containerAccess, children)} :
          Asked("get_subkey", name, r)
    /\ UNCHANGED <<storeVars, keys, iterVars, outcome, codecVars, installers, utilVars>>

\* drop(k.create_subkey(name)), the result kept
AskCreateSubkey(k, name) ==
    /\ ~ValueCrashed
    /\ k \in keys
    /\ \/ KeyStatus(k.path \o <<Sep>> \o name, containerAccess, children)
              # "ERROR_FILE_NOT_FOUND"
       \/ Contains(name, Nul)
       \/ /\ Creatable(k.path \o <<Sep>> \o name, containerAccess, children)
          /\ NumChildren(children) < MaxChildren
    /\ \E r \in {CreateSubkey(k, name, handles, containerAccess, children)} :
          /\ Asked("create_subkey", name, r)
          /\ containerAccess' = r.store.cacc
          /\ children' = r.store.ch
    /\ UNCHANGED <<infoErr, enumErr, build, keys, iterVars, outcome, codecVars, installers, utilVars>>

\* k.get_value(name); the store holds `raw` for the key's value.
CallGetValue(k, name, fault1, fault2) ==
    /\ ~ValueCrashed
    /\ k \in keys
    /\ \E r \in {GetValue(name, raw, fault1, fault2)} :
          answer' = [op |-> "get_value", named |-> name.some, name |-> name.str, got |-> r, ref |-> r]
    /\ UNCHANGED <<storeVars, handles, keys, iterVars, outcome, codecVars, installers, utilVars>>

\* k.try_get_value(name), beside what get_value returned inside it.
CallTryGetValue(k, name, fault1, fault2) ==
    /\ ~ValueCrashed
    /\ k \in keys
    /\ \E r \in {GetValue(name, raw, fault1, fault2)} :
          answer' = [op |-> "try_get_value", named |-> name.some, name |-> name.str,
                     got |-> TryGetValueResult(r), ref |-> r]
    /\ UNCHANGED <<storeVars, handles, keys, iterVars, outcome, codecVars, installers, utilVars>>

\* k.set_value(name, v)
CallSetValue(k, name, v, fault) ==
    /\ ~ValueCrashed
    /\ k \in keys
    /\ \E r \in {SetValue(name, v, raw, fault)} :
          /\ answer' = [op |-> "set_value", named |-> name.some, name |-> name.str, got |-> r.res, ref |-> OkUnit]
          /\ raw' = r.stored
    /\ UNCHANGED <<storeVars, handles, keys, iterVars, outcome, value, decoded, installers, utilVars>>

\* What is kept of a call that returns a key: the error and the key.
Kept(r) == [err |-> r.err, key |-> r.key]

\* from_path of the joined path beside the manual navigation; every key the two
\* opened is dropped again after the comparison.
ResolveBoth(rootName, segs) ==
    /\ keys = {}
    /\ \E r \in {FromPath(JoinPath(<<rootName>>, segs), handles, containerAccess, children)} :
          answer' = [op |-> "from_path", segs |-> segs, got |-> Kept(r),
                     ref |-> Kept(Navigate(rootName, segs, r.hs, containerAccess, children))]
    /\ UNCHANGED <<storeVars, handles, keys, iterVars, outcome, codecVars, installers, utilVars>>

\* child.get_parent() beside from_path of the stripped path; `opener` is the key
\* the child was opened from with get_subkey(name), NoKey when it was not.
ParentAsked(child, opener, name) ==
    \E r \in {GetParent(child, handles, containerAccess, children)} :
        answer' = [op |-> "get_parent", child |-> child, opener |-> opener, name |-> name,
                   got |-> Kept(r), opened |-> r.hs.open \ handles.open,
                   ref |-> IF IsRootKey(child) THEN Kept(r)
                           ELSE Kept(FromPath(ParentPath(child), r.hs,
                                              containerAccess, children))]

\* k.get_parent() on an owned key
AskParent(k) ==
    /\ k \in keys
    /\ ParentAsked(k, NoKey, <<>>)
    /\ UNCHANGED <<storeVars, handles, keys, iterVars, outcome, codecVars, installers, utilVars>>

\* opener.get_subkey(name)?.get_parent()
AskParentOfSubkey(opener, name) ==
    /\ opener \in keys
    /\ \E c \in {GetSubkey(opener, name, handles, containerAccess, children)} :
          /\ c.err = "Ok"
          /\ ParentAsked(c.key, opener, name)
    /\ UNCHANGED <<storeVars, handles, keys, iterVars, outcome, codecVars, installers, utilVars>>

\* A key is made from the key `from` with `name`: the caller owns it, and what
\* it was made from is recorded.
Made(op, from, name, r) ==
    /\ handles' = r.hs
    /\ keys' = Own(r)
    /\ answer' = IF r.err = "Ok"
                 THEN [op |-> op, from |-> from, name |-> name, key |-> r.key]
                 ELSE NoAnswer

\* let c = k.get_subkey(name)
MakeSubkey(k, name) ==
    /\ k \in keys
    /\ Cardinality(keys) < MaxKeys
    /\ \E r \in {GetSubkey(k, name, handles, containerAccess, children)} :
          Made("get_subkey", k, name, r)
    /\ UNCHANGED <<storeVars, iterVars, outcome, codecVars, installers, utilVars>>

\* let c = k.create_subkey(name)
MakeCreated(k, name) ==
    /\ k \in keys
    /\ Cardinality(keys) < MaxKeys
    /\ \/ KeyStatus(k.path \o <<Sep>> \o name, containerAccess, children)
              # "ERROR_FILE_NOT_FOUND"
       \/ /\ Creatable(k.path \o <<Sep>> \o name, containerAccess, children)
          /\ NumChildren(children) < MaxChildren
    /\ \E r \in {CreateSubkey(k, name, handles, containerAccess, children)} :
          /\ Made("create_subkey", k, name, r)
          /\ containerAccess' = r.store.cacc
          /\ children' = r.store.ch
    /\ UNCHANGED <<infoErr, enumErr, build, iterVars, outcome, codecVars, installers, utilVars>>

(***************************************************************************)
(* install_layout (main.rs), the part that registers the layout: one step  *)
(* per call it makes.  An installer is a record                            *)
(*   [pc, name, id, lk, ck, left, commits]                                 *)
(* with lk the layouts key and ck the created layout key it holds.         *)
(***************************************************************************)
NewInstaller(left) ==
    [pc |-> "start", name |-> <<>>, id |-> -1, lk |-> NoKey, ck |-> NoKey,
     left |-> left, commits |-> 0]

\* install_layout returns early (`?`) or unwinds: the keys it holds are dropped.
InstallerLeft(inst) == [inst EXCEPT !.pc = "failed", !.lk = NoKey, !.ck = NoKey]
DropHeld(inst, hs) == DropKey(inst.lk, DropKey(inst.ck, hs))

\* The store after get_next_layout_key has returned `name`: the scan opens keys
\* and drops them, it writes nothing and reserves nothing.
StoreAfterScanReserves(ch, name) ==
    [ch EXCEPT !.list = Append(@, Child(name, "ok", NoValue))]
StoreAfterScan(ch, name) == ch

\* The store once the child called `name` holds the string v as its "Layout Id".
WithLayoutId(ch, name, v) ==
    [ch EXCEPT !.list = [j \in 1..Len(@) |->
                            IF @[j].name = name THEN [@[j] EXCEPT !.id = v] ELSE @[j]]]

\* let layouts_key = get_layouts_key()?
InstallOpen(i) ==
    /\ installers[i].pc = "start"
    /\ \E r \in {GetLayoutsKey(handles, containerAccess, children)} :
          /\ handles' = r.hs
          /\ installers' = [installers EXCEPT ![i] =
                               IF r.err = "Ok" THEN [@ EXCEPT !.pc = "opened", !.lk = r.key]
                               ELSE InstallerLeft(@)]
    /\ UNCHANGED <<storeVars, keys, iterVars, outcome, codecVars, answer, utilVars>>

\* let layout_key_name = get_next_layout_key(0x0409)?
InstallAllocKey(i) ==
    /\ installers[i].pc = "opened"
    /\ \E r \in {GetNextLayoutKey(LocaleEnUs, handles, containerAccess, children, build)} :
          IF r.res.kind = "Ok"
          THEN /\ handles' = r.hs
               /\ children' = StoreAfterScan(children, r.res.str)
               /\ installers' = [installers EXCEPT ![i].pc = "named", ![i].name = r.res.str]
          ELSE /\ handles' = DropHeld(installers[i], r.hs)
               /\ children' = children
               /\ installers' = [installers EXCEPT ![i] = InstallerLeft(@)]
    /\ UNCHANGED <<containerAccess, infoErr, enumErr, build, keys, iterVars, outcome,
                   codecVars, answer, utilVars>>

\* let layout_key = layouts_key.create_subkey(&layout_key_name)?
InstallCreate(i) ==
    /\ installers[i].pc = "named"
    /\ \E r \in {CreateSubkey(installers[i].lk, installers[i].name, handles,
                               containerAccess, children)} :
          /\ containerAccess' = r.store.cacc
          /\ children' = r.store.ch
          /\ IF r.err = "Ok"
             THEN /\ handles' = r.hs
                  /\ installers' = [installers EXCEPT ![i].pc = "created", ![i].ck = r.key]
             ELSE /\ handles' = DropHeld(installers[i], r.hs)
                  /\ installers' = [installers EXCEPT ![i] = InstallerLeft(@)]
    /\ UNCHANGED <<infoErr, enumErr, build, keys, iterVars, outcome, codecVars, answer, utilVars>>

\* let layout_id = get_next_layout_id()?
InstallAllocId(i) ==
    /\ installers[i].pc = "created"
    /\ \E r \in {GetNextLayoutId(handles, containerAccess, children, infoErr, enumErr)} :
          IF r.res.kind = "Ok"
          THEN /\ handles' = r.hs
               /\ installers' = [installers EXCEPT ![i].pc = "id", ![i].id = r.res.num]
          ELSE /\ handles' = DropHeld(installers[i], r.hs)
               /\ installers' = [installers EXCEPT ![i] = InstallerLeft(@)]
    /\ UNCHANGED <<storeVars, keys, iterVars, outcome, codecVars, answer, utilVars>>

\* The commit: the identifier is written as the "Layout Id" string of the created
\* key, in four hexadecimal digits, and install_layout returns.
InstallCommit(i) ==
    /\ installers[i].pc = "id"
    /\ children' = WithLayoutId(children, installers[i].name,
                                StrValue(Format04x(installers[i].id)))
    /\ handles' = DropHeld(installers[i], handles)
    /\ installers' = [installers EXCEPT ![i].pc = "done", ![i].lk = NoKey, ![i].ck = NoKey,
                                        ![i].commits = @ + 1]
    /\ UNCHANGED <<containerAccess, infoErr, enumErr, build, keys, iterVars, outcome,
                   codecVars, answer, utilVars>>

\* The installer is run again.
InstallAgain(i) ==
    /\ installers[i].pc \in {"done", "failed"}
    /\ installers[i].left > 0
    /\ installers' = [installers EXCEPT ![i] =
                         [NewInstaller(@.left - 1) EXCEPT !.commits = installers[i].commits]]
    /\ UNCHANGED <<storeVars, handles, keys, iterVars, outcome, codecVars, answer, utilVars>>

InstallStep(i) ==
    \/ InstallOpen(i)
    \/ InstallAllocKey(i)
    \/ InstallCreate(i)
    \/ InstallAllocId(i)
    \/ InstallCommit(i)

(***************************************************************************)
(* into_range (utils/range_bounds_ext.rs) over an unsigned index type U    *)
(* whose largest value is `top`.  A range-bounds value is [sk, s, ek, e]:  *)
(* the kinds of its two bounds ("Included", "Excluded", "Unbounded") and    *)
(* their values.  A result is [kind, start, end].                          *)
(***************************************************************************)
Bounds(sk, s, ek, e) == [sk |-> sk, s |-> s, ek |-> ek, e |-> e]
OkRange(start, end) == [kind |-> "Ok", start |-> start, end |-> end]
PanicRange == [kind |-> "Panic", start |-> 0, end |-> 0]

\* x + 1.into() in U: -1 stands for the overflow panic of a debug build, a
\* release build wraps around to 0.
PlusOne(x, top, bld) == IF x < top THEN x + 1 ELSE IF bld = "debug" THEN -1 ELSE 0

\* max(x, U::default()), min(x, len); an overflow panic passes through.
MaxWithDefault(x) == IF x < 0 THEN x ELSE IF x > 0 THEN x ELSE 0
MinWithLen(x, len) == IF x < 0 THEN x ELSE IF x < len THEN x ELSE len

\* let start = match self.start_bound() { .. }
RangeStart(b, top, bld) ==
    CASE b.sk = "Included" -> MaxWithDefault(b.s)
      [] b.sk = "Excluded" -> MaxWithDefault(PlusOne(b.s, top, bld))
      [] OTHER -> 0

\* let end = match self.end_bound() { .. }
RangeEnd(b, len, top, bld) ==
    CASE b.ek = "Included" -> MinWithLen(PlusOne(b.e, top, bld), len)
      [] b.ek = "Excluded" -> MinWithLen(b.e, len)
      [] OTHER -> len

\* start..end
RangeOf(start, end) == IF start < 0 \/ end < 0 THEN PanicRange ELSE OkRange(start, end)

\* RangeBoundsExt::into_range
IntoRange(b, len, top, bld) ==
    IF len <= 0 THEN OkRange(0, 0)
    ELSE RangeOf(RangeStart(b, top, bld), RangeEnd(b, len, top, bld))

\* range.into_range(len)
CallIntoRange ==
    /\ range.op = "input"
    /\ range' = [range EXCEPT !.op = "into_range",
                              !.got = IntoRange(range.b, range.len, U8Top, build)]
    /\ UNCHANGED <<storeVars, handles, keys, iterVars, outcome, codecVars, auxVars,
                   files, text, search>>

(***************************************************************************)
(* remove_byte_range, remove_prefix, remove_suffix (utils/string_ext.rs).  *)
(* A string is the sequence of its UTF-8 bytes.  A result is               *)
(* [kind, ret, s]: whether the call returned or panicked, what it          *)
(* returned, and the string afterwards.                                    *)
(***************************************************************************)
\* usize::MAX as far as the integers at hand reach: the lengths of the strings
\* stay far below it.
UsizeTop == (U16Limit \div 2 - 1) * U16Limit + (U16Limit - 1)

\* str::starts_with, str::ends_with
StartsWith(s, p) == Len(p) <= Len(s) /\ SubSeq(s, 1, Len(p)) = p
EndsWith(s, p) == Len(p) <= Len(s) /\ SubSeq(s, Len(s) - Len(p) + 1, Len(s)) = p

\* str::is_char_boundary(index) on the bytes as they are.
IsCharBoundary(bytes, index) ==
    IF index = 0 THEN TRUE
    ELSE IF index >= Len(bytes) THEN index = Len(bytes)
    ELSE bytes[index + 1] < 128 \/ bytes[index + 1] >= 192

\* for i in start..new_len { bytes[i] = bytes[i + amount] }
ShiftDown(bytes, start, newLen, amount) ==
    [i \in 1..Len(bytes) |->
        IF start < i /\ i <= newLen THEN bytes[i + amount] ELSE bytes[i]]

\* String::truncate(new_len): it asserts that new_len is a char boundary.
Truncate(bytes, newLen) ==
    IF newLen > Len(bytes) THEN [kind |-> "Ok", s |-> bytes]
    ELSE IF ~IsCharBoundary(bytes, newLen) THEN [kind |-> "Panic", s |-> bytes]
    ELSE [kind |-> "Ok", s |-> SubSeq(bytes, 1, newLen)]

\* remove_byte_range once into_range has returned r.
RemoveRange(bytes, r) ==
    IF r.kind = "Panic" THEN [kind |-> "Panic", s |-> bytes]
    ELSE IF r.start >= r.end THEN [kind |-> "Ok", s |-> bytes]
    ELSE Truncate(ShiftDown(bytes, r.start, Len(bytes) - (r.end - r.start),
                            r.end - r.start),
                  Len(bytes) - (r.end - r.start))

\* StringExt::remove_byte_range
RemoveByteRange(bytes, b, bld) == RemoveRange(bytes, IntoRange(b, Len(bytes), UsizeTop, bld))

Removed(r) == [kind |-> r.kind, ret |-> TRUE, s |-> r.s]
NotRemoved(s) == [kind |-> "Ok", ret |-> FALSE, s |-> s]

\* StringExt::remove_prefix
RemovePrefix(s, p, bld) ==
    IF StartsWith(s, p)
    THEN Removed(RemoveByteRange(s, Bounds("Unbounded", 0, "Excluded", Len(p)), bld))
    ELSE NotRemoved(s)

\* StringExt::remove_suffix
RemoveSuffix(s, p, bld) ==
    IF EndsWith(s, p)
    THEN Removed(RemoveByteRange(s, Bounds("Included", Len(s) - Len(p), "Unbounded", 0), bld))
    ELSE NotRemoved(s)

\* s.remove_prefix(p)
CallRemovePrefix ==
    /\ text.op = "input"
    /\ text' = [text EXCEPT !.op = "remove_prefix", !.got = RemovePrefix(text.s, text.p, build)]
    /\ UNCHANGED <<storeVars, handles, keys, iterVars, outcome, codecVars, auxVars,
                   files, range, search>>

\* s.remove_suffix(p)
CallRemoveSuffix ==
    /\ text.op = "input"
    /\ text' = [text EXCEPT !.op = "remove_suffix", !.got = RemoveSuffix(text.s, text.p, build)]
    /\ UNCHANGED <<storeVars, handles, keys, iterVars, outcome, codecVars, auxVars,
                   files, range, search>>

(***************************************************************************)
(* move_file (utils/move_file.rs), one step per file-system call.  `files` *)
(* is [pc, src, dst, statFails, toUnicode, src0, dst0, existed, tried,     *)
(* result]: src and dst are the contents of the two files ("absent" when   *)
(* there is none), src0 and dst0 what they were when the call began,       *)
(* existed what to.exists() answered.                                      *)
(***************************************************************************)
Absent == "absent"

\* Path::exists: false as well when the metadata of the file cannot be read.
PathExists(content, statFails) == content # Absent /\ ~statFails

\* The error built when the destination exists: to.to_str().unwrap() panics on a
\* path that is not valid Unicode.
AlreadyExists(toUnicode) == IF toUnicode THEN "AlreadyExists" ELSE "Panic"

MoveFileBegins(src, dst, statFails, toUnicode) ==
    [pc |-> "check", src |-> src, dst |-> dst, statFails |-> statFails,
     toUnicode |-> toUnicode, src0 |-> src, dst0 |-> dst, existed |-> FALSE,
     tried |-> {}, result |-> "None"]

\* if to.exists() { return Err(AlreadyExists) }
MoveCheck ==
    /\ files.pc = "check"
    /\ files' = IF PathExists(files.dst, files.statFails)
                THEN [files EXCEPT !.pc = "done", !.existed = TRUE,
                                   !.result = AlreadyExists(files.toUnicode)]
                ELSE [files EXCEPT !.pc = "rename"]
    /\ UNCHANGED <<storeVars, handles, keys, iterVars, outcome, codecVars, auxVars,
                   text, range, search>>

\* fs::rename(from, to): it replaces a destination that is there; it fails
\* without a source, and whenever the file system refuses (`refused`).
MoveRename(refused) ==
    /\ files.pc = "rename"
    /\ files' = IF refused \/ files.src = Absent
                THEN [files EXCEPT !.pc = "copy", !.tried = @ \cup {"rename"}]
                ELSE [files EXCEPT !.pc = "done", !.tried = @ \cup {"rename"},
                                   !.dst = files.src, !.src = Absent, !.result = "Ok"]
    /\ UNCHANGED <<storeVars, handles, keys, iterVars, outcome, codecVars, auxVars,
                   text, range, search>>

\* fs::copy(from, to)?
MoveCopy(refused) ==
    /\ files.pc = "copy"
    /\ files' = IF refused \/ files.src = Absent
                THEN [files EXCEPT !.pc = "done", !.tried = @ \cup {"copy"},
                                   !.result = "IoError"]
                ELSE [files EXCEPT !.pc = "remove", !.tried = @ \cup {"copy"},
                                   !.dst = files.src]
    /\ UNCHANGED <<storeVars, handles, keys, iterVars, outcome, codecVars, auxVars,
                   text, range, search>>

\* fs::remove_file(from)?; Ok(())
MoveRemove(refused) ==
    /\ files.pc = "remove"
    /\ files' = IF refused
                THEN [files EXCEPT !.pc = "done", !.tried = @ \cup {"remove"},
                                   !.result = "IoError"]
                ELSE [files EXCEPT !.pc = "done", !.tried = @ \cup {"remove"},
                                   !.src = Absent, !.result = "Ok"]
    /\ UNCHANGED <<storeVars, handles, keys, iterVars, outcome, codecVars, auxVars,
                   text, range, search>>

\* Another process creates the destination after the check.
OtherCreatesDestination(content) ==
    /\ files.pc \in {"rename", "copy"}
    /\ files.dst = Absent
    /\ files' = [files EXCEPT !.dst = content]
    /\ UNCHANGED <<storeVars, handles, keys, iterVars, outcome, codecVars, auxVars,
                   text, range, search>>

(***************************************************************************)
(* find_kbdutool_in_path (main.rs).  `search` is [pc, set, dirs, i, depth, *)
(* result]: whether PATH is set, for each directory it lists whether the   *)
(* directory holds MSKLC.exe, the directory the loop is at, and the number *)
(* of calls that are waiting for the call they made.                       *)
(***************************************************************************)
SearchBegins(set, dirs) ==
    [pc |-> "call", set |-> set, dirs |-> dirs, i |-> 0, depth |-> 0, result |-> "None"]

\* let path_env = std::env::var("PATH")?; let path_env = path_env.split(';')
SearchCall ==
    /\ search.pc = "call"
    /\ search' = IF search.set THEN [search EXCEPT !.pc = "loop", !.i = 1]
                 ELSE [search EXCEPT !.pc = "returned", !.result = "Err"]
    /\ UNCHANGED <<storeVars, handles, keys, iterVars, outcome, codecVars, auxVars,
                   files, text, range>>

\* `return find_kbdutool_in_path()`: one more call on the stack, unless the
\* build made a jump of the call in tail position; without room on the stack the
\* process is stopped.
SearchAgain(tail) ==
    IF tail THEN [search EXCEPT !.pc = "call"]
    ELSE IF search.depth >= MaxDepth THEN [search EXCEPT !.pc = "stack overflow"]
    ELSE [search EXCEPT !.pc = "call", !.depth = @ + 1]

\* One round of `for path in path_env`, and the Err after the loop.
SearchVisit(tail) ==
    /\ search.pc = "loop"
    /\ tail => build = "release"
    /\ search' = IF search.i > Len(search.dirs)
                 THEN [search EXCEPT !.pc = "returned", !.result = "Err"]
                 ELSE IF ~search.dirs[search.i] THEN [search EXCEPT !.i = @ + 1]
                 ELSE SearchAgain(tail)
    /\ UNCHANGED <<storeVars, handles, keys, iterVars, outcome, codecVars, auxVars,
                   files, text, range>>

(***************************************************************************)
(* Specifications.                                                         *)
(***************************************************************************)
\* The key-handle operations, the iterators and the allocators on small stores.
Init ==
    /\ InitRest
    /\ InitSmallStore
    /\ children \in HandleStores
    /\ build = "debug"

Next ==
    \/ \E path \in Paths : CallFromPath(path)
    \/ \E k \in keys, name \in SubkeyNames : CallGetSubkey(k, name)
    \/ \E k \in keys, name \in CreateNames : CallCreateSubkey(k, name)
    \/ \E k \in keys : CallGetParent(k)
    \/ \E k \in keys : CallClose(k)
    \/ \E k \in keys : CallIterChildren(k)
    \/ AdvanceChildren
    \/ DropIter
    \/ CallGetNextLayoutKey(0)
    \/ CallGetNextLayoutId

Spec == Init /\ [][Next]_vars

\* The allocators alone, on the small stores and on the stores that fill a range.
InitAlloc ==
    /\ InitRest
    /\ \/ /\ InitSmallStore
          /\ build \in {"debug", "release"}
       \/ /\ containerAccess = "ok"
          /\ children \in KeyFullStores \cup {ExampleStore}
          /\ infoErr = FALSE
          /\ enumErr = 0
          /\ build \in {"debug", "release"}
       \/ /\ containerAccess = "ok"
          /\ children \in IdFullStores
          /\ infoErr = FALSE
          /\ enumErr = 0
          /\ build = "debug"

NextAlloc ==
    \/ \E locale \in Locales : CallGetNextLayoutKey(locale)
    \/ CallGetNextLayoutId

SpecAlloc == InitAlloc /\ [][NextAlloc]_vars

\* A consumer that opens the container, starts an enumeration and keeps
\* advancing it; the store does not change.
InitEnum ==
    /\ InitRest
    /\ InitSmallStore
    /\ build = "debug"

NextEnum ==
    \/ CallFromPath(LayoutsKeyPath)
    \/ \E k \in keys : CallIterChildrenNames(k)
    \/ \E k \in keys : CallIterChildren(k)
    \/ AdvanceNames
    \/ AdvanceChildren

SpecEnum ==
    InitEnum /\ [][NextEnum]_vars /\ WF_vars(AdvanceNames) /\ WF_vars(AdvanceChildren)

\* The codec: a typed value is encoded, and the bytes are decoded again.
Scalars == {97, 128512}       \* "a" and a character outside the BMP

StringsUpTo(n) == UNION {[1..m -> Scalars] : m \in 0..n}

MultiStrings == UNION {[1..m -> StringsUpTo(MaxStrLen)] : m \in 0..MaxStrings}

InitCodec ==
    /\ containerAccess = "ok"
    /\ children = Listed(<<>>)
    /\ infoErr = FALSE
    /\ enumErr = 0
    /\ build = "debug"
    /\ handles = NoHandles
    /\ keys = {}
    /\ iter = NoIter
    /\ items = <<>>
    /\ tick = 0
    /\ outcome = NoOutcome
    /\ value \in {[type |-> "MultiString", strs |-> ss] : ss \in MultiStrings}
    /\ raw = NoRaw
    /\ decoded = NoTyped
    /\ installers = NoInstallers
    /\ answer = NoAnswer
    /\ InitUtil

NextCodec == Encode \/ Decode

SpecCodec == InitCodec /\ [][NextCodec]_vars

\* Paths resolved in one call and by hand, and parents asked for.
NavRoots == {"HKLM", "hklm", "HKEY_LOCAL_MACHINE", "nope"}
ContainerSegs == <<<<"SYSTEM">>, <<"CurrentControlSet">>, <<"Control">>, <<"Keyboard Layouts">>>>
NavSegs ==
    {SubSeq(ContainerSegs, 1, n) : n \in 0..Len(ContainerSegs)}
    \cup {Append(ContainerSegs, c) : c \in {Catalog[3].name, Catalog[4].name, <<"z">>}}
    \cup {<<<<"SYSTEM">>, <<"z">>>>}

InitPath ==
    /\ InitRest
    /\ containerAccess \in {"ok", "denied", "missing"}
    /\ children \in HandleStores
    /\ containerAccess = "missing" => children = Listed(<<>>)
    /\ infoErr = FALSE
    /\ enumErr = 0
    /\ build = "debug"

NextPath ==
    \/ \E path \in {JoinPath(<<"HKLM">>, segs) : segs \in NavSegs}
                     \cup {<<RootAliases[i]>> : i \in RootHandles} : CallFromPath(path)
    \/ \E k \in keys : CallClose(k)
    \/ \E rootName \in NavRoots, segs \in NavSegs : ResolveBoth(rootName, segs)
    \/ \E k \in keys : AskParent(k)
    \/ \E k \in keys, name \in SubkeyNames \cup {<<"SYSTEM">>} : AskParentOfSubkey(k, name)

SpecPath == InitPath /\ [][NextPath]_vars

\* Keys made from the roots and from one another.
MadeNames == {<<"SYSTEM">>, <<"CurrentControlSet">>, ContainerSubPath, Catalog[3].name,
              <<"z">>}

NextRoot ==
    \/ \E path \in {<<RootAliases[i]>> : i \in RootHandles}
                     \cup {<<"nope">>, LayoutsKeyPath} : CallFromPath(path)
    \/ \E k \in keys : CallClose(k)
    \/ \E k \in keys, name \in MadeNames : MakeSubkey(k, name)
    \/ \E k \in keys, name \in MadeNames : MakeCreated(k, name)

SpecRoot == InitPath /\ [][NextRoot]_vars

\* Everything but the utilities, at rest.
InitIdle ==
    /\ containerAccess = "ok"
    /\ children = Listed(<<>>)
    /\ infoErr = FALSE
    /\ enumErr = 0
    /\ handles = NoHandles
    /\ keys = {}
    /\ iter = NoIter
    /\ items = <<>>
    /\ tick = 0
    /\ outcome = NoOutcome
    /\ value = NoTyped
    /\ raw = NoRaw
    /\ decoded = NoTyped
    /\ installers = NoInstallers
    /\ answer = NoAnswer

\* into_range on the bounds over small values and over the largest values of U.
RangeInts == 0..MaxIndex \cup {U8Top - 1, U8Top}
BoundKinds == {"Included", "Excluded", "Unbounded"}
RangeInputs ==
    {Bounds(sk, s, ek, e) : sk \in BoundKinds, s \in RangeInts,
                            ek \in BoundKinds, e \in RangeInts}

InitRange ==
    /\ InitIdle
    /\ build \in {"debug", "release"}
    /\ range \in {[op |-> "input", b |-> b, len |-> len, got |-> OkRange(0, 0)] :
                      b \in {c \in RangeInputs : /\ c.sk = "Unbounded" => c.s = 0
                                                 /\ c.ek = "Unbounded" => c.e = 0},
                      len \in 0..(MaxIndex + 1) \cup {U8Top}}
    /\ files = NoFiles
    /\ text = NoText
    /\ search = NoSearch

NextRange == CallIntoRange

SpecRange == InitRange /\ [][NextRange]_vars

\* remove_prefix and remove_suffix on strings of "a", "b" and "\u{e9}" (two bytes).
Utf8Chars == {<<97>>, <<98>>, <<195, 169>>}

RECURSIVE Texts(_)
Texts(n) ==
    IF n = 0 THEN {<<>>}
    ELSE Texts(n - 1) \cup {t \o c : t \in Texts(n - 1), c \in Utf8Chars}

InitText ==
    /\ InitIdle
    /\ build = "debug"
    /\ text \in {[op |-> "input", s |-> s, p |-> p, got |-> NotRemoved(s)] :
                     s \in Texts(MaxTextLen), p \in Texts(MaxTextLen - 1)}
    /\ files = NoFiles
    /\ range = NoRange
    /\ search = NoSearch

NextText == CallRemovePrefix \/ CallRemoveSuffix

SpecText == InitText /\ [][NextText]_vars

\* find_kbdutool_in_path on every PATH of at most MaxDirs directories; the call
\* keeps running as long as it has a step to take.
InitSearch ==
    /\ InitIdle
    /\ build \in {"debug", "release"}
    /\ search \in {SearchBegins(TRUE, dirs) :
                       dirs \in UNION {[1..n -> BOOLEAN] : n \in 1..MaxDirs}}
                   \cup {SearchBegins(FALSE, <<>>)}
    /\ files = NoFiles
    /\ text = NoText
    /\ range = NoRange

NextSearch ==
    \/ SearchCall
    \/ \E tail \in BOOLEAN : SearchVisit(tail)

SpecSearch ==
    InitSearch /\ [][NextSearch]_vars
    /\ WF_vars(SearchCall) /\ WF_vars(\E tail \in BOOLEAN : SearchVisit(tail))

\* move_file on every pair of files.
FileContents == {Absent, "a", "b", "c"}

InitMove ==
    /\ InitIdle
    /\ build = "debug"
    /\ files \in {MoveFileBegins(src, dst, statFails, toUnicode) :
                      src \in FileContents, dst \in FileContents,
                      statFails \in BOOLEAN, toUnicode \in BOOLEAN}
    /\ files.dst = Absent => ~files.statFails
    /\ text = NoText
    /\ range = NoRange
    /\ search = NoSearch

NextMove ==
    \/ MoveCheck
    \/ \E refused \in BOOLEAN : MoveRename(refused)
    \/ \E refused \in BOOLEAN : MoveCopy(refused)
    \/ \E refused \in BOOLEAN : MoveRemove(refused)
    \/ \E content \in FileContents \ {Absent} : OtherCreatesDestination(content)

SpecMove == InitMove /\ [][NextMove]_vars

\* Installers on the small stores.  The stores hold no two children of one name
\* and no two children of one identifier.
InitInstallStore ==
    /\ handles = NoHandles
    /\ keys = {}
    /\ iter = NoIter
    /\ items = <<>>
    /\ tick = 0
    /\ outcome = NoOutcome
    /\ value = NoTyped
    /\ raw = NoRaw
    /\ decoded = NoTyped
    /\ answer = NoAnswer
    /\ InitUtil
    /\ containerAccess \in {"ok", "denied"}
    /\ children \in SmallStores
    /\ infoErr = FALSE
    /\ enumErr = 0
    /\ build \in {"debug", "release"}

\* One installer, the only writer, run MaxInstalls times one after the other.
InitInstall ==
    /\ InitInstallStore
    /\ installers = <<NewInstaller(MaxInstalls - 1)>>

NextInstall ==
    \/ InstallStep(1)
    \/ InstallAgain(1)

SpecInstall == InitInstall /\ [][NextInstall]_vars

\* Two installers on the same store, their steps interleaved in every order.
InitRace ==
    /\ InitInstallStore
    /\ installers = <<NewInstaller(0), NewInstaller(0)>>

NextRace == \E i \in 1..2 : InstallStep(i)

SpecRace == InitRace /\ [][NextRace]_vars

\* The value operations of a key, and get_subkey / create_subkey, with every
\* kind of argument and store answer.
ValueNames == {NoName, LayoutIdName, SomeName(<<"x">>), SomeName(<<"x", Nul>>)}
StoreFaults == {"ERROR_SUCCESS", "ERROR_ACCESS_DENIED", FaultCode}
StoredValues ==
    {NoRaw,
     [tag |-> "REG_SZ", data |-> <<97, 0, 0, 0>>],
     [tag |-> "REG_SZ", data |-> <<0, 216, 0, 0>>],
     [tag |-> "REG_DWORD_LITTLE_ENDIAN", data |-> <<1, 2, 3>>],
     [tag |-> "REG_DWORD_LITTLE_ENDIAN", data |-> <<1, 2, 3, 4>>],
     [tag |-> "REG_LINK", data |-> <<1, 2>>],
     [tag |-> "REG_NONE", data |-> <<>>],
     [tag |-> "REG_BINARY", data |-> <<1>>]}
SetValues == {[type |-> "String", str |-> <<98>>], [type |-> "Dword", limbs |-> <<0, 1>>]}

InitValue ==
    /\ containerAccess \in {"ok", "denied"}
    /\ children \in HandleStores
    /\ infoErr = FALSE
    /\ enumErr = 0
    /\ build = "debug"
    /\ handles = NoHandles
    /\ keys = {}
    /\ iter = NoIter
    /\ items = <<>>
    /\ tick = 0
    /\ outcome = NoOutcome
    /\ value = NoTyped
    /\ raw \in StoredValues
    /\ decoded = NoTyped
    /\ installers = NoInstallers
    /\ answer = NoAnswer
    /\ InitUtil

NextValue ==
    \/ \E path \in {<<"HKLM">>, LayoutsKeyPath} : CallFromPath(path)
    \/ \E k \in keys, name \in SubkeyNames : AskGetSubkey(k, name)
    \/ \E k \in keys, name \in CreateNames : AskCreateSubkey(k, name)
    \/ \E k \in keys, name \in ValueNames, f1, f2 \in StoreFaults :
          CallGetValue(k, name, f1, f2)
    \/ \E k \in keys, name \in ValueNames, f1, f2 \in StoreFaults :
          CallTryGetValue(k, name, f1, f2)
    \/ \E k \in keys, name \in ValueNames, v \in SetValues, f \in StoreFaults :
          CallSetValue(k, name, v, f)

SpecValue == InitValue /\ [][NextValue]_vars

\* The codec on integers and single strings: a value is encoded and decoded
\* again, or a buffer of any length is decoded and the result encoded again.
LimbValues == {0, 1, 4660, 65535}
TextScalars == Scalars \cup {0}        \* U+0000 is a char a String can hold
TypedValues ==
    {DwordValue(l) : l \in [1..2 -> LimbValues]}
    \cup {QwordValue(l) : l \in [1..4 -> LimbValues]}
    \cup {TextValue(t) : t \in UNION {[1..m -> TextScalars] : m \in 0..MaxStrLen}}
    \cup {ExpandValue(t) : t \in UNION {[1..m -> Scalars] : m \in 0..MaxStrLen}}

SampleBytes == {0, 18, 255}
BytePattern == <<1, 2, 3, 4, 5, 6, 7, 8, 9, 10, 11, 12>>
FixedTags == {"REG_DWORD_LITTLE_ENDIAN", "REG_DWORD_BIG_ENDIAN", "REG_QWORD_LITTLE_ENDIAN"}
Buffers ==
    {SubSeq(BytePattern, 1, n) : n \in 0..MaxBufLen} \cup [1..4 -> SampleBytes]

InitTyped ==
    /\ containerAccess = "ok"
    /\ children = Listed(<<>>)
    /\ infoErr = FALSE
    /\ enumErr = 0
    /\ build = "debug"
    /\ handles = NoHandles
    /\ keys = {}
    /\ iter = NoIter
    /\ items = <<>>
    /\ tick = 0
    /\ outcome = NoOutcome
    /\ decoded = NoTyped
    /\ installers = NoInstallers
    /\ answer = NoAnswer
    /\ InitUtil
    /\ \/ value \in TypedValues /\ raw = NoRaw
       \/ /\ value = NoTyped
          /\ raw \in {[tag |-> t, data |-> b] : t \in FixedTags, b \in Buffers}

NextTyped == Encode \/ Decode \/ Reencode

SpecTyped == InitTyped /\ [][NextTyped]_vars

(***************************************************************************)
(* Properties.                                                             *)
(***************************************************************************)
\* The ids the children of the store record as their "Layout Id".
RecordedIds(ch) ==
    {id \in {ParseHexU16(UnwrapStr(TryGetValue(ChildAt(ch, i)))) :
                i \in {j \in 1..NumChildren(ch) :
                          TryGetValue(ChildAt(ch, j)).type = "String"}} :
        id >= 0}

\* A store get_next_layout_id can read to the end: the container opens, the
\* enumeration does not fail and every child opens.
Readable ==
    /\ containerAccess = "ok"
    /\ ~infoErr
    /\ enumErr = 0
    /\ \A i \in 1..NumChildren(children) : ChildAt(children, i).access = "ok"

C2_FirstFreeCandidateReturned ==
    LET Exists(k) ==
            ChildAccess(children, Format08x(KeyBaseHi + k * KeyStepHi, outcome.arg)) # "none"
        first == CHOOSE k \in 0..NumChildren(children) :
                    ~Exists(k) /\ \A j \in 0..(k - 1) : Exists(j)
    IN  ( /\ outcome.op = "get_next_layout_key"
          /\ containerAccess = "ok"
          /\ \A i \in 1..NumChildren(children) : ChildAt(children, i).access = "ok"
          /\ KeyBaseHi + first * KeyStepHi < U16Limit )
        => /\ outcome.kind = "Ok"
           /\ outcome.str = Format08x(KeyBaseHi + first * KeyStepHi, outcome.arg)

\* C3: when every candidate of the stepped sequence below the boundary
\* 0xFFFF0000 is an existing child, get_next_layout_key(L) fails with the
\* exhaustion error: it neither returns a name nor aborts on the addition.
C3_ExhaustionAtBoundary ==
    ( /\ outcome.op = "get_next_layout_key"
      /\ containerAccess = "ok"
      /\ \A k \in 0..(NumCandidates - 1) :
            KeyBaseHi + k * KeyStepHi < KeyMaskHi =>
                ChildAccess(children, Format08x(KeyBaseHi + k * KeyStepHi, outcome.arg)) = "ok" )
    => outcome.kind = "Err" /\ outcome.msg = ExhaustedKeys

\* C4: decoding the tag and bytes to_raw produced for MultiString(S), S a
\* sequence of non-empty strings, yields MultiString(S) exactly: same length,
\* same order, no extra empty string for the final terminator.
C4_MultiStringRoundTrip ==
    ( /\ decoded # NoTyped
      /\ \A i \in 1..Len(value.strs) : value.strs[i] # <<>> )
    => decoded.type = "MultiString" /\ decoded.strs = value.strs

\* C5: over any sequence of key-handle operations and allocator calls, no handle
\* is released twice and no root handle is released (nothing was ever closed
\* while not open), the open handles are exactly the handles of the non-root
\* keys still owned (none leaked, none closed early), and no two owned keys
\* share a handle.
C5_HandleLifetime ==
    /\ handles.bad = {}
    /\ handles.open = {k.hkey : k \in {q \in keys : ~IsRootKey(q)}}
    /\ handles.open \cap RootHandles = {}
    /\ \A k1, k2 \in keys : k1.hkey = k2.hkey => k1 = k2

\* C5 witness: get_next_layout_key has left through its exhaustion exit while the
\* caller owns a root key and one non-root key, whose handle is the only open one.
C5_ExhaustionExitKeepsOwnedKey ==
    /\ outcome.op = "get_next_layout_key"
    /\ outcome.msg = ExhaustedKeys
    /\ \E k \in keys : IsRootKey(k)
    /\ \E k \in keys : ~IsRootKey(k) /\ handles.open = {k.hkey}

\* C6: a consumer that keeps advancing iter_children_names reaches
\* end-of-sequence after finitely many advances, whatever the enumerate
\* primitive reports.
C6_EnumerationEnds == (iter.mode = "names") ~> iter.ended

\* C7: with no enumeration fault and an unchanged store, iter_children_names
\* yields the names of the key's immediate children, each once, in index order:
\* the log is always a prefix of the names, every advance so far added one name
\* until the end was reported, the end is reported only after all of them, and a
\* key with zero children reports the end on the first advance.
C7_EnumerationContent ==
    ( /\ iter.mode = "names"
      /\ ~(iter.key.path = ContainerPath /\ (infoErr \/ enumErr # 0)) )
    => \E n \in {ChildCount(iter.key.path, containerAccess, children)} :
          /\ Len(items) <= n
          /\ \A i \in 1..Len(items) :
                items[i] = [kind |-> "Ok",
                            name |-> ChildNameAt(iter.key.path, i, children),
                            err |-> ""]
          /\ iter.ended => Len(items) = n
          /\ ~iter.ended => iter.index = Len(items) /\ tick = Len(items) % 2
          /\ (n = 0 /\ tick = 1) => iter.ended

\* C7 witness: the enumeration of a container with two children has ended.
C7_TwoNamesThenEnd ==
    /\ iter.mode = "names"
    /\ iter.key.path = ContainerPath
    /\ ~infoErr
    /\ enumErr = 0
    /\ iter.ended
    /\ Len(items) = 2
    /\ items[1].name # items[2].name

\* C8: in iter_children with no enumeration fault, a child that cannot be opened
\* gives one failure item in its place and the advances after it still yield
\* every remaining child: item i is the key of child i or the failure to open
\* it, every advance so far added one item until the end was reported, and the
\* end is reported only after all children.
C8_FailureItemThenRest ==
    ( /\ iter.mode = "children"
      /\ iter.key.path = ContainerPath
      /\ ~infoErr
      /\ enumErr = 0 )
    => /\ Len(items) <= NumChildren(children)
       /\ \A i \in 1..Len(items) :
             items[i] = IF ChildAt(children, i).access = "ok"
                        THEN [kind |-> "Ok",
                              name |-> ContainerPath \o <<Sep>> \o ChildAt(children, i).name,
                              err |-> ""]
                        ELSE [kind |-> "Err", name |-> <<>>, err |-> "AccessDenied"]
       /\ iter.ended => Len(items) = NumChildren(children)
       /\ ~iter.ended => iter.index = Len(items) /\ tick = Len(items) % 2

\* C8 witness: the first child could not be opened, and the second was yielded
\* after it before the end.
C8_DeniedThenNext ==
    /\ iter.mode = "children"
    /\ ~infoErr
    /\ enumErr = 0
    /\ iter.ended
    /\ Len(items) = 2
    /\ items[1].kind = "Err"
    /\ items[2].kind = "Ok"

\* C9: on a readable store in which every child lacks "Layout Id" or holds a
\* string that parses as a 16-bit hexadecimal integer, get_next_layout_id
\* completes with an identifier or the exhaustion error and never aborts.
C9_TotalOverValidStores ==
    ( /\ outcome.op = "get_next_layout_id"
      /\ Readable
      /\ \A i \in 1..NumChildren(children) :
            \/ TryGetValue(ChildAt(children, i)).type = "None"
            \/ ParseHexU16(UnwrapStr(TryGetValue(ChildAt(children, i)))) >= 0 )
    => \/ outcome.kind = "Ok"
       \/ outcome.kind = "Err" /\ outcome.msg = ExhaustedIds

\* C10: a call of get_next_layout_id that completes on a readable store fails
\* with the exhaustion error if and only if every identifier of the inclusive
\* range 0x0F00..0xF000 is recorded, and returns an identifier whenever one of
\* them is unrecorded.
C10_ExhaustedIffInclusiveRangeFull ==
    ( /\ outcome.op = "get_next_layout_id"
      /\ Readable
      /\ outcome.kind # "Panic" )
    => \E rec \in {RecordedIds(children)} :
          /\ (outcome.kind = "Err" /\ outcome.msg = ExhaustedIds)
                <=> \A v \in LayoutIdBase..LayoutIdEnd : v \in rec
          /\ (\E v \in LayoutIdBase..LayoutIdEnd : v \notin rec) => outcome.kind = "Ok"

\* C17: for every 32-bit x and 64-bit y, decoding the encoding of Dword(x) yields
\* Dword(x) and of Qword(y) yields Qword(y); the encodings are exactly 4 and 8
\* bytes, least significant byte first.
C17_IntegerRoundTrip ==
    (value.type \in {"Dword", "Qword"} /\ raw # NoRaw)
    => /\ Len(raw.data) = IF value.type = "Dword" THEN 4 ELSE 8
       /\ \A j \in 1..Len(raw.data) :
             raw.data[j] =
                IF j % 2 = 1 THEN value.limbs[Len(value.limbs) - (j - 1) \div 2] % 256
                ELSE value.limbs[Len(value.limbs) - (j - 1) \div 2] \div 256
       /\ decoded # NoTyped => decoded = value

\* C17 witness: the Qword 0x0000_0001_1234_ffff has been encoded and decoded.
C17_QwordDecoded ==
    /\ value = QwordValue(<<0, 1, 4660, 65535>>)
    /\ raw.data = <<255, 255, 52, 18, 1, 0, 0, 0>>
    /\ decoded = value

\* C18: for every text string s, decoding the tag and bytes to_raw produced for
\* String(s) yields String(s) with exactly the same code units.
C18_StringRoundTrip ==
    (value.type = "String" /\ decoded # NoTyped) => decoded = value

\* C19: from_data with a 32-bit integer tag (little- or big-endian) succeeds if
\* and only if the buffer has exactly 4 bytes, with the 64-bit tag if and only if
\* it has exactly 8; any other length is a failure and no value is produced.
C19_FixedWidthLength ==
    (raw.tag \in FixedTags /\ decoded # NoTyped)
    => \E width \in {IF raw.tag = "REG_QWORD_LITTLE_ENDIAN" THEN 8 ELSE 4} :
          /\ Len(raw.data) = width
                => /\ decoded.type =
                        (IF raw.tag = "REG_QWORD_LITTLE_ENDIAN" THEN "Qword" ELSE "Dword")
                   /\ Len(decoded.limbs) * 2 = width
          /\ Len(raw.data) # width => decoded = DecodeErr

\* C19 witness: a 3-byte buffer tagged as a 32-bit integer was refused.
C19_ThreeBytesRefused ==
    /\ raw.tag = "REG_DWORD_LITTLE_ENDIAN"
    /\ Len(raw.data) = 3
    /\ decoded = DecodeErr

\* C20: a 4-byte buffer [b0,b1,b2,b3] tagged big-endian decodes to the integer
\* b0*2^24 + b1*2^16 + b2*2^8 + b3, encoding that value gives the little-endian
\* tag with the bytes [b3,b2,b1,b0], and to_raw never emits the big-endian tag.
C20_BigEndianDecode ==
    /\ (raw.tag = "REG_DWORD_BIG_ENDIAN" /\ Len(raw.data) = 4 /\ decoded # NoTyped)
          => /\ decoded = DwordValue(<<raw.data[1] * 256 + raw.data[2],
                                       raw.data[3] * 256 + raw.data[4]>>)
             /\ answer.op = "to_raw"
                   => /\ answer.raw.tag = "REG_DWORD_LITTLE_ENDIAN"
                      /\ answer.raw.data =
                            <<raw.data[4], raw.data[3], raw.data[2], raw.data[1]>>
    /\ (value # NoTyped /\ raw # NoRaw) => raw.tag # "REG_DWORD_BIG_ENDIAN"
    /\ answer.op = "to_raw" => answer.raw.tag # "REG_DWORD_BIG_ENDIAN"

\* C20 witness: the big-endian buffer [1,2,3,4] was decoded and encoded again.
C20_ReencodedLittleEndian ==
    /\ raw = [tag |-> "REG_DWORD_BIG_ENDIAN", data |-> <<1, 2, 3, 4>>]
    /\ decoded = DwordValue(<<258, 772>>)
    /\ answer.op = "to_raw"
    /\ answer.raw.data = <<4, 3, 2, 1>>

\* C15: for every key and value name, try_get_value returns Ok(None) exactly
\* when get_value fails with NotFound, the value get_value returns when it
\* succeeds, and every other failure of get_value unchanged.
C15_TryReadSemantics ==
    answer.op = "try_get_value"
    => /\ (answer.got.kind = "Ok" /\ ~answer.got.some)
             <=> (answer.ref.kind = "Err" /\ answer.ref.err = "NotFound")
       /\ answer.ref.kind = "Ok"
             => answer.got = OkValue(answer.ref.value)
       /\ (answer.ref.kind = "Err" /\ answer.ref.err # "NotFound")
             => answer.got = answer.ref

\* C15 witness: reading a value the key does not hold gave Ok(None), get_value
\* having failed with NotFound.
C15_MissingGivesNone ==
    /\ answer.op = "try_get_value"
    /\ answer.named
    /\ answer.name = LayoutIdName.str
    /\ raw = NoRaw
    /\ answer.ref = ErrValue("NotFound")
    /\ answer.got = OkNone

\* C16: get_subkey, create_subkey, get_value, try_get_value and set_value report
\* every failure, a name holding a zero code unit included, as an error result;
\* none of them aborts for any argument.
C16_TypedFailuresNeverAbort ==
    answer.op \in {"get_subkey", "create_subkey", "get_value", "try_get_value", "set_value"}
    => /\ answer.got.kind \in {"Ok", "Err"}
       /\ (answer.named /\ Contains(answer.name, Nul)) => answer.got = ErrValue("Other")

\* C13: for every root name R and segments s1..sn, from_path("R\\s1\\...\\sn")
\* succeeds exactly when opening R and then get_subkey(s1), ..., get_subkey(sn)
\* all succeed, the two keys then have the same path and compare equal, and
\* when a step fails from_path fails with the failure of that step.
C13_FromPathAgreesWithNavigation ==
    answer.op = "from_path"
    => /\ answer.got.err = "Ok" <=> answer.ref.err = "Ok"
       /\ answer.ref.err = "Ok"
             => /\ answer.got.key.path = answer.ref.key.path
                /\ KeyEq(answer.got.key, answer.ref.key)
       /\ answer.ref.err # "Ok" => answer.got.err = answer.ref.err

\* The parent asked for, as far as it does not depend on how the child was
\* opened: a root fails with Other and opens nothing, a non-root key gives what
\* from_path of the stripped path gives.
ParentResolvesStrippedPath ==
    /\ IsRootKey(answer.child)
          => answer.got.err = "Other" /\ answer.opened = {}
    /\ ~IsRootKey(answer.child)
          => /\ answer.got.err = answer.ref.err
             /\ answer.got.err = "Ok" => KeyEq(answer.got.key, answer.ref.key)

\* C14 as stated: get_parent on a root fails without opening anything; on a
\* non-root key the result compares equal to from_path of the stripped path and
\* to the key from which the child was opened.
C14_ParentEqualsOpener ==
    answer.op = "get_parent"
    => /\ ParentResolvesStrippedPath
       /\ answer.opener # NoKey
             => answer.got.err = "Ok" /\ KeyEq(answer.got.key, answer.opener)

\* C14 amended: the result compares equal to the key from which the child was
\* opened when the child was opened with a name of one segment (a name without a
\* separator); the rest as stated.
C14_ParentEqualsOpenerOfOneSegment ==
    answer.op = "get_parent"
    => /\ ParentResolvesStrippedPath
       /\ (answer.opener # NoKey /\ ~Contains(answer.name, Sep))
             => answer.got.err = "Ok" /\ KeyEq(answer.got.key, answer.opener)

\* C14 witness: the parent of HKLM\SYSTEM, opened from the root with the name
\* SYSTEM, is the root.
C14_ParentOfSystemIsRoot ==
    /\ answer.op = "get_parent"
    /\ answer.opener = RootKey(1)
    /\ answer.name = <<"SYSTEM">>
    /\ answer.got = [err |-> "Ok", key |-> RootKey(1)]

\* The identifier a layout key holds: -1 when it holds none.
HeldId(c) == IF c.id.type = "None" THEN -1 ELSE ParseHexU16(UnwrapStr(c.id))

UniqueNames(ch) ==
    \A i, j \in 1..Len(ch.list) : i # j => ch.list[i].name # ch.list[j].name

UniqueIds(ch) ==
    \A i, j \in 1..Len(ch.list) :
        (i # j /\ ch.list[i].id.type # "None" /\ ch.list[j].id.type # "None")
        => /\ HeldId(ch.list[i]) # HeldId(ch.list[j])
           /\ ch.list[i].id # ch.list[j].id

\* C11: with a single installer as the only writer, which allocates a key name
\* and an identifier and commits them before the next allocation, no two layout
\* keys share a key name and no two layout keys hold the same identifier value,
\* in every reachable store.
C11_SequentialUniqueness == UniqueNames(children) /\ UniqueIds(children)

\* C11 witness: the installer has committed MaxInstalls times, and the store
\* holds the keys it created next to a key that was there before.
C11_CommittedEveryRun ==
    /\ installers[1].commits = MaxInstalls
    /\ Len(children.list) > MaxInstalls
    /\ \E i \in 1..Len(children.list) :
          children.list[i].name = installers[1].name
          /\ HeldId(children.list[i]) = installers[1].id

\* C12: the allocators reserve nothing, so two installers whose scans both
\* finish before either of them commits are handed the same values: the same
\* key name while neither has created its key, the same identifier while neither
\* has written its identifier.
C12_AllocationRace ==
    /\ (installers[1].pc = "named" /\ installers[2].pc = "named")
          => installers[1].name = installers[2].name
    /\ (installers[1].pc = "id" /\ installers[2].pc = "id")
          => installers[1].id = installers[2].id

\* C12 witness: both installers hold the same free identifier and the same free
\* key name, and neither has committed.
C12_BothHandedTheSame ==
    /\ installers[1].pc = "id"
    /\ installers[2].pc = "id"
    /\ installers[1].id = installers[2].id
    /\ installers[1].name = installers[2].name
    /\ \A i \in 1..Len(children.list) : HeldId(children.list[i]) # installers[1].id

\* Every key the caller owns has no separator in its path exactly when it is one
\* of the five keys the root constructors make, holding a predefined handle.
RootsAreTheConstructed ==
    \A k \in keys :
        IsRootKey(k) <=> (k.hkey \in RootHandles /\ k = RootKey(k.hkey))

\* The key made from a key with path P and name n has path P\n and is not a root.
MadeUnderParent ==
    answer.op \in {"get_subkey", "create_subkey"}
    => /\ answer.key.path = answer.from.path \o <<Sep>> \o answer.name
       /\ ~IsRootKey(answer.key)

\* C21 as stated: a key's path contains no separator if and only if the key was
\* produced by one of the five root constructors and holds one of the five
\* predefined root handles; every key produced by get_subkey or create_subkey
\* from a key with path P and name n has path P\n, name n as its last segment,
\* and is not a root.
C21_RootIdentification ==
    /\ RootsAreTheConstructed
    /\ MadeUnderParent
    /\ answer.op \in {"get_subkey", "create_subkey"} => GetName(answer.key) = answer.name

\* C21 amended: the name of the produced key is n when n is a single segment (it
\* holds no separator), and the last segment of n otherwise; the rest as stated.
C21_RootIdentificationOfOneSegment ==
    /\ RootsAreTheConstructed
    /\ MadeUnderParent
    /\ answer.op \in {"get_subkey", "create_subkey"}
          => GetName(answer.key) = GetName([hkey |-> 0, path |-> answer.name])

\* C21 witness: the caller owns the root HKLM and the key SYSTEM opened from it.
C21_SystemUnderRoot ==
    /\ answer.op = "get_subkey"
    /\ answer.from = RootKey(1)
    /\ answer.name = <<"SYSTEM">>
    /\ {answer.from, answer.key} \subseteq keys
    /\ GetName(answer.key) = <<"SYSTEM">>

\* C22: move_file fails with an AlreadyExists error, leaving the source and the
\* destination unchanged, whenever the destination exists when it is checked;
\* only otherwise does it attempt a rename and, if the rename fails, a copy
\* followed by the deletion of the source.
C22_NeverOverwrites ==
    files.pc \notin {"none", "check"}
    => /\ files.existed
             => /\ files.pc = "done"
                /\ files.result = "AlreadyExists"
                /\ files.src = files.src0 /\ files.dst = files.dst0
                /\ files.tried = {}
       /\ files.tried # {} => ~files.existed /\ "rename" \in files.tried
       /\ "remove" \in files.tried => "copy" \in files.tried

\* C25: on every advance of iter_children_names the buffer capacity reported to
\* the enumerate-nth-child primitive does not exceed the number of code units
\* allocated in the name buffer.
C25_ReportedCapacityWithinBuffer ==
    (iter.mode = "names" /\ ~iter.single /\ ~iter.ended)
    => ReportedCapacity(iter) <= iter.bufLen

\* C27: from_data applied to the tag and bytes to_raw produced for
\* ExpandString(s) yields ExpandString(s): the terminator the encoder appended is
\* not part of the decoded text.
C27_ExpandStringRoundTrip ==
    (value.type = "ExpandString" /\ decoded # NoTyped) => decoded = value

\* The indices below len that the bounds b contain.
Contained(b, len) ==
    {i \in 0..(len - 1) :
        /\ b.sk = "Included" => b.s <= i
        /\ b.sk = "Excluded" => b.s < i
        /\ b.ek = "Included" => i <= b.e
        /\ b.ek = "Excluded" => i < b.e}

\* C24: for every range-bounds value over non-negative integers and every
\* len > 0, into_range(len) returns the half-open range whose members are
\* exactly the indices i with 0 <= i < len that the bounds contain (an unbounded
\* start becomes 0, an inclusive end e becomes min(e+1, len), an exclusive end e
\* becomes min(e, len), an unbounded end becomes len); for len <= 0 it returns
\* the empty range 0..0.
C24_IntoRangeClamps ==
    range.op = "into_range"
    => /\ range.got.kind = "Ok"
       /\ range.len <= 0 => range.got.start = 0 /\ range.got.end = 0
       /\ range.len > 0
             => /\ {i \in 0..U8Top : range.got.start <= i /\ i < range.got.end}
                      = Contained(range.b, range.len)
                /\ range.b.sk = "Unbounded" => range.got.start = 0
                /\ range.b.ek = "Included"
                      => range.got.end = MinWithLen(range.b.e + 1, range.len)
                /\ range.b.ek = "Excluded"
                      => range.got.end = MinWithLen(range.b.e, range.len)
                /\ range.b.ek = "Unbounded" => range.got.end = range.len

\* C23: remove_prefix(p) returns true and leaves s with exactly the leading p
\* removed when s starts with p, and returns false leaving s unchanged
\* otherwise; remove_suffix(p) does the same for a trailing p.
C23_RemovePrefixSuffix ==
    /\ text.op = "remove_prefix"
          => text.got = IF StartsWith(text.s, text.p)
                        THEN [kind |-> "Ok", ret |-> TRUE,
                              s |-> SubSeq(text.s, Len(text.p) + 1, Len(text.s))]
                        ELSE [kind |-> "Ok", ret |-> FALSE, s |-> text.s]
    /\ text.op = "remove_suffix"
          => text.got = IF EndsWith(text.s, text.p)
                        THEN [kind |-> "Ok", ret |-> TRUE,
                              s |-> SubSeq(text.s, 1, Len(text.s) - Len(text.p))]
                        ELSE [kind |-> "Ok", ret |-> FALSE, s |-> text.s]

\* C26: find_kbdutool_in_path terminates for every value of PATH: the call
\* returns (an error, or a path) after finitely many steps, whether or not a
\* directory of PATH contains MSKLC.exe.
C26_SearchTerminates == (search.pc = "call") ~> (search.pc = "returned")

====
